---- MODULE Spec2Model ----
(***************************************************************************)
(* A model of the mean-variance optimizer endpoint                         *)
(* POST /portfolio/efficient-frontier (src/server/api/portfolio.py), of    *)
(* the price endpoint POST /data/prices with its cache (data.py) and of    *)
(* the regression endpoints of model.py, ff_factors.py and risk.py.        *)
(*                                                                         *)
(* Numbers.  Python floats are modelled by exact rationals kept as         *)
(* integers over a common denominator that is fixed for one request:       *)
(*   - a periodic return is an integer number of units u;                  *)
(*   - a weight is an integer number of 1/WeightDen;                       *)
(*   - mu[i]      is T       times the annualized mean, in u;              *)
(*   - cov[i][j]  is T*(T-1) times the annualized covariance, in u^2;      *)
(*   - a portfolio return mu @ w is kept times T*WeightDen;                *)
(*   - a portfolio variance w @ cov @ w is kept times T*(T-1)*WeightDen^2; *)
(*     the risk is its square root, so risk > 0 iff the variance is > 0;   *)
(*   - rf is an integer number of u.                                       *)
(* T is the number of rows of the return table.                            *)
(***************************************************************************)
EXTENDS Integers, Sequences, FiniteSets, TLC

\* ---------------------------------------------------------------- bounds

\* Half the number of grid steps between weight 0 and weight 1: the solver's
\* weight vectors are searched on the grid of multiples of 1/WeightDen.
GridHalf == 2

WeightDen == 2 * GridHalf

\* ------------------------------------------------------------- arithmetic

RECURSIVE SumTo(_, _)
\* f[1] + ... + f[n]
SumTo(f, n) == IF n = 0 THEN 0 ELSE f[n] + SumTo(f, n - 1)

SeqSum(s) == SumTo(s, Len(s))

Sign(x) == IF x < 0 THEN -1 ELSE IF x > 0 THEN 1 ELSE 0

RECURSIVE FracCmp(_, _, _, _)
\* The sign of a/b - c/d for a, c >= 0 and b, d > 0, by continued fractions
\* (no product is formed, so nothing overflows).
FracCmp(a, b, c, d) ==
    LET q1 == a \div b
        q2 == c \div d
        r1 == a % b
        r2 == c % d
    IN  IF q1 # q2 THEN (IF q1 < q2 THEN -1 ELSE 1)
        ELSE IF r1 = 0 /\ r2 = 0 THEN 0
        ELSE IF r1 = 0 THEN -1
        ELSE IF r2 = 0 THEN 1
        ELSE FracCmp(d, r2, b, r1)

\* The sign of e1/sqrt(v1) - e2/sqrt(v2), for v1, v2 > 0.
RatioCmp(e1, v1, e2, v2) ==
    IF Sign(e1) # Sign(e2) THEN (IF Sign(e1) < Sign(e2) THEN -1 ELSE 1)
    ELSE IF Sign(e1) = 0 THEN 0
    ELSE Sign(e1) * FracCmp(e1 * e1, v1, e2 * e2, v2)

\* ------------------------------------------------- statistics estimator

\* A faulty variant of Annualization: every interval is taken for daily.
AnnualizationDaily(interval) == 252

\* annualization_factors.get(request.interval, 252)
Annualization(interval) ==
    IF interval = "1d" THEN 252
    ELSE IF interval = "1wk" THEN 52
    ELSE IF interval = "1mo" THEN 12
    ELSE 252

\* The number of rows of the return table (every column has as many).
Rows(returns) == Len(returns[1])

\* returns_df[ticker] = [...]: the first column sets the index of the frame; a
\* later column of another length makes the assignment raise ValueError.
Ragged(returns) == \E i \in 1..Len(returns) : Len(returns[i]) # Len(returns[1])

\* With fewer than two rows the sample covariance (ddof = 1) is 0/0 = NaN: the
\* numerators kept in cov are 0 and their denominator T*(T-1) is 0 too.
CovIsNaN(returns) == Rows(returns) < 2

\* returns_df.mean().values * annualization, times T.
Mean(returns, interval) ==
    [i \in 1..Len(returns) |-> Annualization(interval) * SeqSum(returns[i])]

\* returns_df.cov().values * annualization (the sample covariance, ddof = 1),
\* times T*(T-1):  T * sum_t x_it x_jt - (sum_t x_it)(sum_t x_jt).
Cov(returns, interval) ==
    LET T == Rows(returns)
        Prod(i, j) == [t \in 1..T |-> returns[i][t] * returns[j][t]]
    IN  [i \in 1..Len(returns) |->
            [j \in 1..Len(returns) |->
                Annualization(interval) *
                    (T * SeqSum(Prod(i, j)) - SeqSum(returns[i]) * SeqSum(returns[j]))]]

\* mu @ w, times T*WeightDen.
Dot(m, w) == SumTo([i \in 1..Len(m) |-> m[i] * w[i]], Len(m))

\* w @ cov @ w, times T*(T-1)*WeightDen^2.
QuadForm(w, c) ==
    SumTo([i \in 1..Len(w) |->
              SumTo([j \in 1..Len(w) |-> w[i] * c[i][j] * w[j]], Len(w))], Len(w))

\* The determinant of cov, for the one, two or three assets of the inputs.
Det(c) ==
    IF Len(c) = 1 THEN c[1][1]
    ELSE IF Len(c) = 2 THEN c[1][1] * c[2][2] - c[1][2] * c[2][1]
    ELSE c[1][1] * (c[2][2] * c[3][3] - c[2][3] * c[3][2])
         - c[1][2] * (c[2][1] * c[3][3] - c[2][3] * c[3][1])
         + c[1][3] * (c[2][1] * c[3][2] - c[2][2] * c[3][1])

\* A row of zeros: elimination meets an exactly zero pivot whatever the rounding.
HasZeroRow(c) == \E i \in 1..Len(c) : \A j \in 1..Len(c) : c[i][j] = 0

\* np.linalg.inv(cov): whether it raises LinAlgError.  It raises on an exactly
\* zero pivot.  For a singular matrix without a zero row the pivot is zero only
\* up to rounding, so both outcomes are possible.
InvRaises(c) ==
    IF Det(c) # 0 THEN {FALSE}
    ELSE IF HasZeroRow(c) THEN {TRUE}
    ELSE {TRUE, FALSE}

\* ----------------------------------------------------------------- solver

\* num_points = 50
num_points == 50

\* The scale of a target return relative to a portfolio return mu @ w:
\* 2 (max_return is kept doubled, for the factor 1.5), 100 (the factors 0.95
\* and 1.05) and num_points - 1 (the step of np.linspace).
TargetScale == 2 * 100 * (num_points - 1)

\* The weights the solver searches: every component between -1 and 2.
WeightRange == (-WeightDen)..(2 * WeightDen)

RECURSIVE VectorsSumming(_, _)
\* The vectors of n weights of the range that sum to total.
VectorsSumming(n, total) ==
    IF n = 1 THEN (IF total \in WeightRange THEN {<<total>>} ELSE {})
    ELSE UNION {{Append(v, a) : v \in VectorsSumming(n - 1, total - a)} :
                    a \in WeightRange}

\* The vectors of n weights of the range.
Box(n) == [1..n -> WeightRange]

\* The vectors of the range that satisfy the constraints of problem p.
Feasible(p, m) ==
    {w \in (IF p.sum_to_one THEN VectorsSumming(Len(m), WeightDen) ELSE Box(Len(m))) :
        /\ p.nonneg => \A i \in 1..Len(m) : w[i] >= 0
        /\ p.cap # <<>> => \A i \in 1..Len(m) : w[i] <= p.cap[1]
        /\ p.target # <<>> => Dot(m, w) * TargetScale >= p.target[1]}

\* A linear objective mu @ w has no maximum: nothing bounds the weights from
\* below or above (cvxpy reports 'unbounded').
Unbounded(p, m) ==
    /\ p.objective = "max_return"
    /\ ~p.nonneg
    /\ p.cap = <<>>
    /\ IF p.sum_to_one
       THEN \E i, j \in 1..Len(m) : m[i] # m[j]
       ELSE \E i \in 1..Len(m) : m[i] # 0

\* The value of the objective of problem p at w (the less the better).
Objective(p, m, c, w) ==
    IF p.objective = "min_variance" THEN QuadForm(w, c) ELSE -Dot(m, w)

\* The optimal points of problem p.
ArgBest(p, m, c) ==
    LET F == Feasible(p, m)
        val == [w \in F |-> Objective(p, m, c, w)]
    IN  {w \in F : \A v \in F : val[w] <= val[v]}

Raised == [raised |-> TRUE, status |-> "solver_error", value |-> <<>>]

Reported(st, val) == [raised |-> FALSE, status |-> st, value |-> val]

\* prob.solve(solver=cp.OSQP): the outcomes of one solve.  fault is what the
\* solver does besides solving: "none", "raise" (cvxpy raises SolverError),
\* "user_limit" (iteration limit, no value) or "optimal_inaccurate" (a value
\* of reduced accuracy).
Solve(p, m, c, fault) ==
    IF fault = "raise" THEN {Raised}
    ELSE IF Feasible(p, m) = {} THEN {Reported("infeasible", <<>>)}
    ELSE IF Unbounded(p, m) THEN {Reported("unbounded", <<>>)}
    ELSE IF fault = "user_limit" THEN {Reported("user_limit", <<>>)}
    ELSE IF fault = "optimal_inaccurate"
         THEN {Reported("optimal_inaccurate", <<w>>) : w \in ArgBest(p, m, c)}
    ELSE {Reported("optimal", <<w>>) : w \in ArgBest(p, m, c)}

\* ------------------------------------------------------------- handler

\* constraints_min: [cp.sum(w_min) == 1], w_min >= 0 if not allow_short,
\* w_min <= max_weight if max_weight < 1.0.
MinVarProblem(req) ==
    [objective |-> "min_variance",
     sum_to_one |-> TRUE,
     nonneg |-> ~req.allow_short,
     cap |-> IF req.max_weight < WeightDen THEN <<req.max_weight>> ELSE <<>>,
     target |-> <<>>]

\* constraints_max, for Maximize(mu @ w_max).
MaxRetProblem(req) ==
    [objective |-> "max_return",
     sum_to_one |-> TRUE,
     nonneg |-> ~req.allow_short,
     cap |-> IF req.max_weight < WeightDen THEN <<req.max_weight>> ELSE <<>>,
     target |-> <<>>]

\* Faulty variants of the sweep problem, each leaving one constraint out; the
\* properties below are shown to tell them from TargetProblem.
TargetProblemNoBudget(req, target_return) ==
    [objective |-> "min_variance",
     sum_to_one |-> FALSE,
     nonneg |-> ~req.allow_short,
     cap |-> IF req.max_weight < WeightDen THEN <<req.max_weight>> ELSE <<>>,
     target |-> <<target_return>>]

TargetProblemNoLongOnly(req, target_return) ==
    [objective |-> "min_variance",
     sum_to_one |-> TRUE,
     nonneg |-> FALSE,
     cap |-> IF req.max_weight < WeightDen THEN <<req.max_weight>> ELSE <<>>,
     target |-> <<target_return>>]

TargetProblemNoCap(req, target_return) ==
    [objective |-> "min_variance",
     sum_to_one |-> TRUE,
     nonneg |-> ~req.allow_short,
     cap |-> <<>>,
     target |-> <<target_return>>]

\* constraints of one sweep problem: cp.sum(w) == 1, mu @ w >= target_return,
\* w >= 0 if not allow_short, w <= max_weight if max_weight < 1.0.
TargetProblem(req, target_return) ==
    [objective |-> "min_variance",
     sum_to_one |-> TRUE,
     nonneg |-> ~req.allow_short,
     cap |-> IF req.max_weight < WeightDen THEN <<req.max_weight>> ELSE <<>>,
     target |-> <<target_return>>]

\* A faulty variant of RangeFix: the range is left as the solves gave it.
RangeFixNone(min_ret, max_ret) == max_ret

\* if min_return >= max_return: max_return = min_return * 1.5
\* (both returns are kept doubled, so the product is an integer).
RangeFix(min_ret, max_ret) ==
    IF min_ret >= max_ret THEN (min_ret * 3) \div 2 ELSE max_ret

\* np.linspace(min_return * 0.95, max_return * 1.05, num_points)[k], k = 1..50,
\* times TargetScale / 2 (the returns given are already doubled).
TargetReturn(min_ret, max_ret, k) ==
    (num_points - k) * 95 * min_ret + (k - 1) * 105 * max_ret

\* request.rf on the scale of a portfolio return (times T*WeightDen).
RfScaled(req) == req.rf * Rows(req.returns) * WeightDen

\* EfficientFrontierPoint(risk=actual_risk, return_=actual_return, weights=...)
\* for the value w of a solve; risk_sq is the square of the risk.
FrontierPoint(w, m, c) ==
    [risk_sq |-> QuadForm(w, c), return_ |-> Dot(m, w), weights |-> w]

\* Faulty variants of Accepted: one takes any solve that left a value, whatever
\* its status; one does not look at the risk.
AcceptedAnyStatus(out, m, c) ==
    IF out.value # <<>>
    THEN IF QuadForm(out.value[1], c) > 0
         THEN <<FrontierPoint(out.value[1], m, c)>>
         ELSE <<>>
    ELSE <<>>

AcceptedAnyRisk(out, m, c) ==
    IF out.status = "optimal" /\ out.value # <<>>
    THEN <<FrontierPoint(out.value[1], m, c)>>
    ELSE <<>>

\* if problem.status == 'optimal' and w.value is not None: ...
\*     if actual_risk > 0: frontier_points.append(...)
\* The points one sweep solve adds to frontier_points (none or one).
Accepted(out, m, c) ==
    IF out.status = "optimal" /\ out.value # <<>>
    THEN IF QuadForm(out.value[1], c) > 0
         THEN <<FrontierPoint(out.value[1], m, c)>>
         ELSE <<>>
    ELSE <<>>

\* A faulty variant of SweepRaises: a status other than 'optimal' is raised, as
\* it is for the two bounding solves.
SweepRaisesOnStatus(out) == out.raised \/ out.status # "optimal"

\* Whether one solve of the sweep ends the request with an exception: only an
\* exception raised by the solver does, a status is never raised.
SweepRaises(out) == out.raised

\* A Sharpe ratio e / sqrt(v) is kept as its numerator e = return - rf and the
\* square v of its denominator; the literal 0 is 0 / sqrt(1).
SharpeOf(ret, risk_sq, rfs) == [num |-> ret - rfs, sq |-> risk_sq]

ZeroSharpe == [num |-> 0, sq |-> 1]

\* A faulty variant of SharpeGreater: the comparison reversed.
SharpeLess(a, b) == RatioCmp(a.num, a.sq, b.num, b.sq) < 0

\* sharpe > max_sharpe
SharpeGreater(a, b) == RatioCmp(a.num, a.sq, b.num, b.sq) > 0

TangencyPortfolio(risk_sq, ret, sharpe, weights) ==
    [risk_sq |-> risk_sq, return_ |-> ret, sharpe |-> sharpe, weights |-> weights]

\* A faulty variant of ScanStep: the running maximum starts at 0, so that a
\* point of negative Sharpe ratio is never selected.
ScanStepFromZero(prev, point, rfs) ==
    LET sharpe == SharpeOf(point.return_, point.risk_sq, rfs)
    IN  IF point.risk_sq > 0
           /\ SharpeGreater(sharpe, IF prev = <<>> THEN ZeroSharpe ELSE prev[1].sharpe)
        THEN <<TangencyPortfolio(point.risk_sq, point.return_, sharpe, point.weights)>>
        ELSE prev

\* The body of the loop, entered with the tangency so far (<<>> is None, with
\* max_sharpe = -np.inf):
\*   if point.risk > 0: sharpe = (point.return_ - request.rf) / point.risk
\*       if sharpe > max_sharpe: max_sharpe = sharpe; tangency = ...
ScanStep(prev, point, rfs) ==
    LET sharpe == SharpeOf(point.return_, point.risk_sq, rfs)
    IN  IF point.risk_sq > 0 /\ (prev = <<>> \/ SharpeGreater(sharpe, prev[1].sharpe))
        THEN <<TangencyPortfolio(point.risk_sq, point.return_, sharpe, point.weights)>>
        ELSE prev

RECURSIVE ScanRange(_, _, _, _, _)
\* for point in frontier_points[a..b], entered with the tangency prev: the loop
\* over the first half of the range, then the loop over the second half.
ScanRange(prev, points, rfs, a, b) ==
    IF a > b THEN prev
    ELSE IF a = b THEN ScanStep(prev, points[a], rfs)
    ELSE LET mid == (a + b) \div 2
             first == ScanRange(prev, points, rfs, a, mid)
         IN  IF first = <<>>
             THEN ScanRange(<<>>, points, rfs, mid + 1, b)
             ELSE ScanRange(first, points, rfs, mid + 1, b)

\* tangency = None; max_sharpe = -np.inf; for point in frontier_points: ...
\* after the first n points; <<>> is None.
TangencyScan(points, rfs, n) == ScanRange(<<>>, points, rfs, 1, n)

\* A faulty variant of MinVarFallback: no fallback, None stays None.
NoFallback(tan, wmin, m, c, rfs) == tan

\* if tangency is None: the minimum-variance portfolio w_min.value, with
\* min_var_sharpe = (min_var_return - rf) / min_var_risk if min_var_risk > 0 else 0
MinVarFallback(tan, wmin, m, c, rfs) ==
    IF tan = <<>>
    THEN LET min_var_return == Dot(m, wmin)
             min_var_risk_sq == QuadForm(wmin, c)
         IN  <<TangencyPortfolio(min_var_risk_sq, min_var_return,
                    IF min_var_risk_sq > 0
                    THEN SharpeOf(min_var_return, min_var_risk_sq, rfs)
                    ELSE ZeroSharpe,
                    wmin)>>
    ELSE tan

\* Find tangency portfolio (max Sharpe ratio), then the fallback.
SelectTangency(points, wmin, m, c, rfs) ==
    MinVarFallback(TangencyScan(points, rfs, Len(points)), wmin, m, c, rfs)

\* A faulty variant of EqualWeights: everything in the first asset.
FirstAssetOnly(n) == [i \in 1..n |-> IF i = 1 THEN WeightDen ELSE 0]

\* weights = np.ones(n_assets) / n_assets (n_assets divides WeightDen for the
\* one or two assets of the tables whose covariance is singular).
EqualWeights(n) == [i \in 1..n |-> WeightDen \div n]

\* except np.linalg.LinAlgError: the equal-weight portfolio as tangency.
EqualWeightTangency(m, c, rfs) ==
    LET weights == EqualWeights(Len(m))
        port_return == Dot(m, weights)
        port_risk_sq == QuadForm(weights, c)
    IN  TangencyPortfolio(port_risk_sq, port_return,
            IF port_risk_sq > 0 THEN SharpeOf(port_return, port_risk_sq, rfs)
            ELSE ZeroSharpe,
            weights)

RECURSIVE MaxRiskSq(_, _, _)
\* max([p.risk for p in frontier_points[a..b]]), squared: the greater of the
\* maxima of the two halves of the range.
MaxRiskSq(points, a, b) ==
    IF a = b THEN points[a].risk_sq
    ELSE LET mid == (a + b) \div 2
             first == MaxRiskSq(points, a, mid)
             second == MaxRiskSq(points, mid + 1, b)
         IN  IF second > first THEN second ELSE first

\* CMLPoint(risk=risk, return_=cml_return) for step number `step` of the 49
\* steps of np.linspace(0, max_risk, 50), where max_risk is half_mul/2 times
\* sqrt(base_sq):
\*   risk    = risk_num / (2 * 49) * sqrt(risk_sq)
\*   return_ = rf + excess_num / (2 * 49) * sqrt(excess_sq_num / excess_sq_den)
\* the latter being rf + (tangency.return_ - rf) / tangency.risk * risk.
CMLPoint(step, half_mul, base_sq, tan, rfs) ==
    [risk_num |-> step * half_mul,
     risk_sq |-> base_sq,
     rf |-> rfs,
     excess_num |-> (tan.return_ - rfs) * (step * half_mul),
     excess_sq_num |-> base_sq,
     excess_sq_den |-> tan.risk_sq]

\* Faulty variants of CapitalMarketLine: one draws the line through the origin
\* instead of through (0, rf); one does not look at the tangency's risk.
CapitalMarketLineThroughOrigin(points, tan, rfs) ==
    IF tan # <<>> /\ tan[1].risk_sq > 0
    THEN [k \in 1..num_points |->
            CMLPoint(k - 1,
                     IF points # <<>> THEN 3 ELSE 4,
                     IF points # <<>> THEN MaxRiskSq(points, 1, Len(points))
                     ELSE tan[1].risk_sq,
                     [tan[1] EXCEPT !.return_ = @ + rfs], 0)]
    ELSE <<>>

CapitalMarketLineUnguarded(points, tan, rfs) ==
    IF tan # <<>>
    THEN [k \in 1..num_points |->
            CMLPoint(k - 1,
                     IF points # <<>> THEN 3 ELSE 4,
                     IF points # <<>> THEN MaxRiskSq(points, 1, Len(points))
                     ELSE tan[1].risk_sq,
                     tan[1], rfs)]
    ELSE <<>>

\* The Capital Market Line: empty unless the tangency risk is positive, else
\* one point for each of the 50 risks of np.linspace(0, max_risk, 50), where
\* max_risk is 1.5 times the largest frontier risk, or 2 times the tangency
\* risk when the frontier is empty.
CapitalMarketLine(points, tan, rfs) ==
    IF tan # <<>> /\ tan[1].risk_sq > 0
    THEN [k \in 1..num_points |->
            CMLPoint(k - 1,
                     IF points # <<>> THEN 3 ELSE 4,
                     IF points # <<>> THEN MaxRiskSq(points, 1, Len(points))
                     ELSE tan[1].risk_sq,
                     tan[1], rfs)]
    ELSE <<>>

\* EfficientFrontierResponse(frontier=..., tangency=..., cml=...)
EfficientFrontierResponse(points, tan, cml) ==
    [kind |-> "response", status_code |-> 200, detail |-> <<>>,
     frontier |-> points, tangency |-> tan, cml |-> cml]

HTTPException(code, msg) ==
    [kind |-> "HTTPException", status_code |-> code, detail |-> msg,
     frontier |-> <<>>, tangency |-> <<>>, cml |-> <<>>]

\* except Exception as e: raise HTTPException(status_code=500, detail=...)
\* A faulty variant of OuterExcept: an exception of the solver escapes as it is.
OuterExceptSolverEscapes(e) ==
    IF e = "SolverError"
    THEN [kind |-> "SolverError", status_code |-> 0, detail |-> <<>>,
          frontier |-> <<>>, tangency |-> <<>>, cml |-> <<>>]
    ELSE HTTPException(500, <<"Error calculating efficient frontier: ", e>>)

\* detail is the fixed prefix followed by str(e).
OuterExcept(e) == HTTPException(500, <<"Error calculating efficient frontier: ", e>>)

NoResponse ==
    [kind |-> "none", status_code |-> 0, detail |-> <<>>,
     frontier |-> <<>>, tangency |-> <<>>, cml |-> <<>>]

\* ---------------------------------------------------------------- inputs

\* Return tables, one column per asset, in units u: three rows each, then a
\* table of one row, a table whose columns differ in length, and the empty
\* mapping.
ReturnTables ==
    { << <<1, 0, 2>>, <<0, 1, 0>> >>,      \* means 1 and 1/3, covariance regular
      << <<1, 0, 2>>, <<2, 0, 1>> >>,      \* equal positive means
      << <<-1, 0, -2>>, <<0, -1, 0>> >>,   \* negative means
      << <<-1, 0, -2>>, <<-2, 0, -1>> >>,  \* equal negative means
      << <<1, 0, 2>>, <<0, -1, 0>> >>,     \* means of opposite sign
      << <<1, 0, -1>>, <<0, 1, -1>> >>,    \* zero means
      << <<1, 0, 2>>, <<2, 0, 4>> >>,      \* collinear: singular covariance
      << <<1, 0, 2>>, <<0, 1, -1>> >>,     \* correlation -1: singular covariance
      << <<1, 1, 1>>, <<0, 1, 2>> >>,      \* a constant asset: a zero row
      << <<1, 0, 2>> >>,                   \* one asset
      << <<-1, 0, -2>> >>,                 \* one asset, negative mean
      << <<1, 1, 1>> >>,                   \* one constant asset
      << <<1>>, <<0>> >>,                  \* one observation per asset
      << <<1, 0, 2>>, <<0, 1>> >>,         \* series of different lengths
      << >> }                              \* no asset at all

\* request.rf, in u: zero, moderate, above every annualized mean.
RiskFreeRates == {0, 5, 300}

\* request.max_weight, in 1/WeightDen: negative, below 1/2, 1/2, between, 1.0
\* (the default).  The field is a plain float: nothing keeps it positive.
MaxWeights == {-1, 1, GridHalf, WeightDen - 1, WeightDen}

Intervals == {"1d", "1mo"}

Requests ==
    [returns : ReturnTables, rf : RiskFreeRates, allow_short : BOOLEAN,
     max_weight : MaxWeights, interval : Intervals]

\* What the solver does besides solving during one request: nothing, or a
\* fault of one kind at the minimum-variance solve, at the max-return solve,
\* or at the sweep's solves numbered in `at`.
FaultKinds == {"raise", "user_limit", "optimal_inaccurate"}

NoFaults == [where |-> "none", at |-> {}, kind |-> "none"]

FaultSchedules ==
    {NoFaults}
    \cup [where : {"min", "max"}, at : {{}}, kind : {"raise", "user_limit"}]
    \cup [where : {"sweep"}, at : {{1}, {num_points - 1, num_points}, 1..num_points},
          kind : FaultKinds]

FaultAt(f, where, k) ==
    IF f.where = where /\ (where = "sweep" => k \in f.at) THEN f.kind ELSE "none"

\* ------------------------------------------- price data: POST /data/prices

\* A dict is a function on its keys; {} is the function on no key.
EmptyDict == <<>>

\* d[k] = v
Put(d, k, v) == [x \in DOMAIN d \cup {k} |-> IF x = k THEN v ELSE d[x]]

\* The ticker symbols of the requests, in the order of Python's string comparison.
TickerOrder == <<"A", "B">>

Rank(t) == CHOOSE r \in 1..Len(TickerOrder) : TickerOrder[r] = t

\* The number of entries of s that sort at position r or before.
UpTo(r, s) == Cardinality({j \in 1..Len(s) : Rank(s[j]) <= r})

\* A faulty variant of SortedTickers: the list is left in the order given.
UnsortedTickers(s) == s

\* sorted(request.tickers)
SortedTickers(s) ==
    [i \in 1..Len(s) |->
        TickerOrder[CHOOSE r \in 1..Len(TickerOrder) : UpTo(r - 1, s) < i /\ i <= UpTo(r, s)]]

\* cache_key: the MD5 digest of the JSON text of the five fields, the tickers
\* sorted.  The text determines the key; two texts of equal digest are not
\* considered.
CacheKey(req) ==
    [tickers |-> SortedTickers(req.tickers), start |-> req.start, end |-> req.end,
     interval |-> req.interval, log_returns |-> req.log_returns]

\* The close series a source returns for a ticker: the market data differ from
\* one call to the next, `version` tells them apart.
Close(ticker, version) == [ticker |-> ticker, version |-> version]

SeriesVersions == {1, 2}

\* What td.time_series(...).as_pandas() does: a frame with a 'close' column, an
\* empty frame, a frame without 'close', or an exception (rate limit, 4xx,
\* anything else).
TwelveDataOutcomes ==
    {[kind |-> "series", version |-> v] : v \in SeriesVersions}
    \cup {[kind |-> k, version |-> 0] :
            k \in {"empty", "no_close", "rate_limit", "api_error", "error"}}

\* What yf.download(...) does: a frame with data, an empty frame, an exception.
YfinanceOutcomes ==
    {[kind |-> "series", version |-> v] : v \in SeriesVersions}
    \cup {[kind |-> k, version |-> 0] : k \in {"empty", "error"}}

\* fetch_with_twelve_data: the pair (data, error_msg), data None (<<>>) on any
\* failure; every exception is caught and turned into a message.
fetch_with_twelve_data(ticker, out) ==
    IF out.kind = "series"
    THEN [data |-> <<Close(ticker, out.version)>>, error |-> <<>>]
    ELSE [data |-> <<>>,
          error |-> << CASE out.kind = "empty" -> "No data returned from Twelve Data"
                         [] out.kind = "no_close" -> "No 'close' column in Twelve Data response"
                         [] out.kind = "rate_limit" -> "Rate limit hit"
                         [] out.kind = "api_error" -> "API error"
                         [] OTHER -> "Twelve Data error" >>]

\* fetch_with_yfinance: the pair (data, error_msg), likewise.
fetch_with_yfinance(ticker, out) ==
    IF out.kind = "series"
    THEN [data |-> <<Close(ticker, out.version)>>, error |-> <<>>]
    ELSE [data |-> <<>>,
          error |-> << IF out.kind = "empty" THEN "No data returned from yfinance"
                       ELSE "yfinance error" >>]

\* A faulty variant of FirstSource: yfinance is asked first in every case.
FirstSourceYfinance(use_twelve_data) == "yfinance"

\* fetch_ticker_data, line 130: the source asked first.
FirstSource(use_twelve_data) == IF use_twelve_data THEN "twelve" ELSE "yfinance"

\* Lines 181-197: the price list of a close series (dates and values without
\* the missing ones).
PriceList(series) == [of |-> series, what |-> "adjClose"]

\* Lines 200-221: the return list of a close series, log returns or simple ones.
ReturnList(series, log_returns) ==
    [of |-> series, what |-> IF log_returns THEN "log" ELSE "pct_change"]

\* FetchPricesResponse(prices=prices_data, returns=returns_data)
FetchPricesResponse(prices, returns) ==
    [kind |-> "response", status_code |-> 200, detail |-> <<>>,
     prices |-> prices, returns |-> returns]

HTTPError(code, msg) ==
    [kind |-> "HTTPException", status_code |-> code, detail |-> msg,
     prices |-> EmptyDict, returns |-> EmptyDict]

\* A faulty variant of PricesExcept: every exception is wrapped, an
\* HTTPException too.
PricesExceptRewrap(e) == HTTPError(500, <<"Error fetching prices: ", e.detail>>)

\* Lines 250-253: an HTTPException raised inside the handler is raised again as
\* it is, any other exception becomes a 500.
PricesExcept(e) ==
    IF e.kind = "HTTPException" THEN e
    ELSE HTTPError(500, <<"Error fetching prices: ", e.detail>>)

\* Line 229: len(failed_tickers) == len(request.tickers)
AllFailed(failed, tickers) == Len(failed) = Len(tickers)

\* A faulty variant of SkipCache: a partial response is stored like a complete one.
SkipCacheNever(failed) == FALSE

\* Line 237: if failed_tickers
SkipCache(failed) == failed # <<>>

\* A faulty variant of CacheStore: the cache keeps the newest response only.
CacheStoreNewest(cache, key, resp) == Put(EmptyDict, key, resp)

\* Line 245: _price_cache[cache_key] = response
CacheStore(cache, key, resp) == Put(cache, key, resp)

\* The requests: no ticker, one, two in either order, one ticker twice; simple
\* or log returns.
PriceRequests ==
    [tickers : {<< >>, <<"A">>, <<"A", "B">>, <<"B", "A">>},
     start : {"2020-01-01"}, end : {"2021-01-01"}, interval : {"1d"},
     log_returns : BOOLEAN]
    \cup [tickers : {<<"B", "B">>},
          start : {"2020-01-01"}, end : {"2021-01-01"}, interval : {"1wk"},
          log_returns : {FALSE}]

NoPricesRequest ==
    [tickers |-> << >>, start |-> "", end |-> "", interval |-> "1d",
     log_returns |-> FALSE]

NoPricesResponse ==
    [kind |-> "none", status_code |-> 0, detail |-> <<>>,
     prices |-> EmptyDict, returns |-> EmptyDict]

\* ------------------- regressions: /model/capm, /ff/grs, /risk/multi-asset-metrics,
\* ------------------- /risk/lpm-frontier

\* The number of months the factor file covers (with every factor present).
FactorMonthCount == 9

\* A column of returns: the values of its rows, in units u, and the rows whose
\* value is missing (NaN).
Column(ticker, values, missing) ==
    [ticker |-> ticker, values |-> values, missing |-> missing]

\* Series of n rows: with values that vary, and with one and the same value.
Varying(n) == [i \in 1..n |-> i % 3]

Flat(n) == [i \in 1..n |-> 1]

\* The tickers of a list of columns, in order.
Tickers(columns) == [i \in 1..Len(columns) |-> columns[i].ticker]

\* pd.DataFrame from columns of different lengths raises ValueError.
RaggedFrame(columns) ==
    \E i \in 1..Len(columns) : Len(columns[i].values) # Len(columns[1].values)

\* The column of the frame named t.
ColumnOf(columns, t) ==
    columns[CHOOSE i \in 1..Len(columns) : columns[i].ticker = t]

\* {"1d": 252, "1wk": 52, "1mo": 12}.get(interval, default)
PeriodsPerYear(interval, default) ==
    IF interval = "1d" THEN 252
    ELSE IF interval = "1wk" THEN 52
    ELSE IF interval = "1mo" THEN 12
    ELSE default

\* sm.add_constant(excess), has_constant='skip': no column of ones is added
\* when the data already are a constant other than zero, that is when the
\* market's values over `rows` are one and the same and differ from rf_period
\* (rf / periods).
ConstantSkipped(values, rows, rf, periods) ==
    /\ rows # {}
    /\ \A i, j \in rows : values[i] = values[j]
    /\ \A i \in rows : values[i] * periods # rf

\* Whether the frame has a column named t.
HasColumn(columns, t) == \E i \in 1..Len(columns) : columns[i].ticker = t

\* An exception raised inside a handler, and an HTTPException.
Exc(kind, code, msg) == [kind |-> kind, status_code |-> code, detail |-> msg]

\* Faulty variant of MinObs: one observation fewer is asked for.
MinObsLess(N, K) == N + K

\* Line 297 of ff_factors.py: min_obs = N + K + 1
MinObs(N, K) == N + K + 1

\* except Exception as e: raise HTTPException(status_code=500, detail=...): the
\* handlers of run_capm, grs_test and calculate_lpm_frontier catch whatever is
\* raised in their body, an HTTPException included.
Rewrapped(prefix, e) == Exc("HTTPException", 500, <<prefix, e.detail>>)

\* except HTTPException: raise, then except Exception (risk.py, lines 245-250).
MetricsExcept(e) ==
    IF e.kind = "HTTPException" THEN e
    ELSE Rewrapped("Error calculating multi-asset metrics: ", e)

\* ---- run_capm

\* Line 82: the rows where neither the market nor the asset is missing.
CleanRows(market, asset) ==
    {i \in 1..Len(asset.values) : i \notin market.missing /\ i \notin asset.missing}

\* CAPMResult(ticker=..., ...): the coefficients are those of the regression of
\* the asset on the market over the clean rows.
CAPMResult(ticker, rows) == [ticker |-> ticker, ols_rows |-> rows]

\* Lines 119-126: 50 points over the range of the betas, none without betas.
SecurityMarketLine(results) ==
    IF results # <<>>
    THEN [k \in 1..50 |-> [beta_step |-> k - 1, betas_of |-> Tickers(results)]]
    ELSE <<>>

CAPMResponse(results, sml, market) ==
    [kind |-> "response", status_code |-> 200, results |-> results, sml |-> sml,
     summary |-> [market |-> market]]

CapmColumnSets ==
    { \* the market between three assets: 11, 9 and 10 clean rows
      << Column("X", Varying(11), {}), Column("M", Varying(11), {}),
         Column("Y", Varying(11), {2, 5}), Column("Z", Flat(11), {11}) >>,
      \* the market first, a row missing; the asset has 9 clean rows
      << Column("M", Varying(10), {3}), Column("X", Varying(10), {}) >>,
      \* series of 11 and of 5 rows
      << Column("M", Varying(11), {}), Column("X", Varying(5), {}) >>,
      \* a market of constant returns
      << Column("M", Flat(10), {}), Column("X", Varying(10), {}) >>,
      \* the market alone
      << Column("M", Varying(10), {}) >>,
      \* nine rows each
      << Column("X", Varying(9), {}), Column("M", Varying(9), {}) >>,
      \* no series at all
      << >> }

\* rf is in units u per year: 0, and 52 u, which is 1 u a week.
CAPMRequests ==
    [returns : CapmColumnSets, market : {"M", "SPY"}, rf : {0, 52},
     interval : {"1wk", "1mo"}]

\* ---- grs_test

\* The months of a portfolio's returns, each normalized to its first day.
MonthSets ==
    { {}, 1..6, 1..FactorMonthCount, 3..FactorMonthCount }

\* start_date and end_date are months, 0 for None.
GRSTestRequests ==
    [portfolios : {<< >>} \cup [1..1 -> MonthSets] \cup [1..2 -> MonthSets],
     model : {"FF3", "FF5"}, start_date : {0, 2, 4}, end_date : {0, 8}]

\* Lines 491-497: the months of the factor file within [start_date, end_date].
FactorMonths(req) ==
    {m \in 1..FactorMonthCount :
        /\ req.start_date # 0 => m >= req.start_date
        /\ req.end_date # 0 => m <= req.end_date}

\* Lines 284-287: the portfolios side by side, joined with the factors on the
\* months they share, rows with a missing value dropped.  Without a portfolio
\* the frame has no row.
Merged(portfolios, factor_months) ==
    IF Len(portfolios) = 0 THEN {}
    ELSE {m \in factor_months : \A i \in 1..Len(portfolios) : m \in portfolios[i]}

\* Lines 332-338: np.linalg.inv(Sigma) of the residual covariance.  For one
\* portfolio np.cov returns a 0-dimensional array and inv raises LinAlgError;
\* otherwise it raises when the residuals make Sigma singular.
SigmaInvRaises(N) == IF N = 1 THEN {TRUE} ELSE {TRUE, FALSE}

\* Line 338: grs_stat = (T / N) * ((T - N - K) / (N * (K + 1))) * (numerator /
\* denominator), kept as its divisions; line 342: F(N, T - N - K).
GRSStatistic(T, N, K) ==
    [first |-> [num |-> T, den |-> N],
     second |-> [num |-> T - N - K, den |-> N * (K + 1)],
     dfn |-> N, dfd |-> T - N - K]

GRSTestResponse(model, stat, N, T) ==
    [kind |-> "response", status_code |-> 200, model |-> model,
     grs_statistic |-> stat, num_portfolios |-> N, num_observations |-> T]

\* ---- calculate_multi_asset_metrics and calculate_lpm_frontier

AssetLists ==
    { << Column("SPY", Varying(4), {}), Column("X", Varying(4), {2}) >>,
      << Column("SPY", Varying(3), {1}), Column("X", Varying(3), {2}) >>,
      << Column("SPY", Flat(3), {}), Column("X", Varying(3), {}) >>,
      << Column("X", Varying(3), {}), Column("Y", Varying(3), {}) >>,
      << Column("SPY", Varying(3), {}), Column("X", Varying(2), {}) >>,
      << >> }

MultiAssetRequests ==
    [assets : AssetLists, market_ticker : {"SPY"}, rf : {0, 12}, interval : {"1mo"}]

LPMFrontierRequests ==
    [assets : AssetLists, tau : {0}, n : {2}, num_points : {0, 2}]

\* returns_df.dropna(): the rows without a missing value.
DropNa(columns) ==
    IF Len(columns) = 0 THEN {}
    ELSE {i \in 1..Len(columns[1].values) :
            \A c \in 1..Len(columns) : i \notin columns[c].missing}

\* Lines 180-238 of risk.py: the metrics of each asset; an asset whose
\* regression fails (the constant was skipped, so params[1] does not exist) is
\* left out.
MetricsList(req) ==
    SelectSeq(Tickers(req.assets),
              LAMBDA t : t = req.market_ticker
                         \/ ~ConstantSkipped(
                                ColumnOf(req.assets, req.market_ticker).values,
                                DropNa(req.assets), req.rf,
                                PeriodsPerYear(req.interval, 12)))

ApiResponse(body) == [kind |-> "response", status_code |-> 200, body |-> body]

NoApiResponse == [kind |-> "none", status_code |-> 0]

NoApiRequest == [none |-> TRUE]

NoGrs == [T |-> 0, N |-> 0, K |-> 0]

\* ----------------------------------------------------------------- state

VARIABLES
    pc,               \* where the handler is: idle, inv, solve_min, solve_max,
                      \* sweep, tangency, done
    request,          \* the request being served
    faults,           \* the solver's fault schedule during this request
    mu, cov,          \* annualized mean vector and covariance matrix
    w_min,            \* w_min.value, <<>> before the solve
    min_return,       \* float(mu @ w_min.value), doubled
    max_return,       \* float(mu @ w_max.value), doubled
    visited,          \* the number of target returns the sweep has solved for
    solves,           \* the outcome of each sweep solve so far
    frontier_points,
    point_targets,    \* for each frontier point, the number of its target
    exception,        \* the exception raised inside the handler, "none" if none
    response,         \* what the caller receives
    memo              \* one earlier request as it was served, <<>> if none is kept

\* The state of POST /data/prices (src/server/api/data.py).
VARIABLES
    USE_TWELVE_DATA,  \* bool(TWELVE_DATA_API_KEY), fixed when the module is loaded
    price_cache,      \* _price_cache: cache key -> FetchPricesResponse
    prices_pc,        \* where fetch_prices is: idle, loop, twelve, yfinance, done
    prices_request,   \* the request being served
    ticker_at,        \* the number of tickers the loop of line 171 has taken
    prices_data,      \* prices_data: ticker -> price list
    returns_data,     \* returns_data: ticker -> return list
    failed_tickers,
    calls,            \* the calls of the data sources made for this request
    prices_response,  \* what the caller receives
    served_ok         \* the requests served so far with every ticker fetched

portfolio_vars ==
    <<pc, request, faults, mu, cov, w_min, min_return, max_return, visited,
      solves, frontier_points, point_targets, exception, response, memo>>

prices_vars ==
    <<USE_TWELVE_DATA, price_cache, prices_pc, prices_request, ticker_at,
      prices_data, returns_data, failed_tickers, calls, prices_response, served_ok>>

\* No request is being served and the locals of fetch_prices do not exist.
PricesAtRest ==
    /\ prices_pc = "idle"
    /\ prices_request = NoPricesRequest
    /\ ticker_at = 0
    /\ prices_data = EmptyDict
    /\ returns_data = EmptyDict
    /\ failed_tickers = <<>>
    /\ calls = <<>>
    /\ prices_response = NoPricesResponse

\* The module is loaded: the cache is empty (line 15).
PricesIdle ==
    /\ PricesAtRest
    /\ price_cache = EmptyDict
    /\ served_ok = {}

\* The state of the regression endpoints (model.py, ff_factors.py, risk.py): one
\* request of one of them is served at a time.
VARIABLES
    api_pc,           \* idle, capm_loop, grs_stat, done
    api_handler,      \* the name of the handler serving the request
    api_request,
    api_raised,       \* the exception raised inside the handler's body, if any
    api_response,     \* what the caller receives
    capm_at,          \* the number of columns the loop of run_capm has taken
    results,          \* results of run_capm
    grs               \* T, N and K of compute_grs_test

api_vars ==
    <<api_pc, api_handler, api_request, api_raised, api_response, capm_at,
      results, grs>>

\* No request is being served by a regression endpoint.
ApiIdle ==
    /\ api_pc = "idle"
    /\ api_handler = "none"
    /\ api_request = NoApiRequest
    /\ api_raised = <<>>
    /\ api_response = NoApiResponse
    /\ capm_at = 0
    /\ results = <<>>
    /\ grs = NoGrs

\* What the efficient-frontier handler never touches.
other_vars == <<prices_vars, api_vars>>

vars == <<portfolio_vars, other_vars>>

NoRequest ==
    [returns |-> << <<0>> >>, rf |-> 0, allow_short |-> FALSE,
     max_weight |-> WeightDen, interval |-> "1d"]

\* No request is being served by the efficient-frontier handler.
PortfolioIdle ==
    /\ pc = "idle"
    /\ request = NoRequest
    /\ faults = NoFaults
    /\ mu = <<>>
    /\ cov = <<>>
    /\ w_min = <<>>
    /\ min_return = 0
    /\ max_return = 0
    /\ visited = 0
    /\ solves = <<>>
    /\ frontier_points = <<>>
    /\ point_targets = <<>>
    /\ exception = "none"
    /\ response = NoResponse
    /\ memo = <<>>

\* The server has started, without TWELVE_DATA_API_KEY in its environment.
Init ==
    /\ PortfolioIdle
    /\ USE_TWELVE_DATA = FALSE
    /\ PricesIdle
    /\ ApiIdle

\* The handler returns `resp`.
Finish(resp) ==
    /\ pc' = "done"
    /\ response' = resp

\* Exception e is raised inside the outer try: lines 254-255 turn it into the
\* HTTPException the caller receives.
Raise(e) ==
    /\ exception' = e
    /\ Finish(OuterExcept(e))

\* Lines 53-79: a request of the set reqs arrives.  The frame is built column by
\* column (ValueError when a column has another length than the first), mu and
\* cov are estimated, and cp.Variable(n_assets) raises ValueError when there is
\* no asset.
ReceiveFrom(reqs, schedules) ==
    /\ pc = "idle"
    /\ \E req \in reqs, f \in schedules :
          /\ request' = req
          /\ faults' = f
          /\ IF Ragged(req.returns)
             THEN /\ Raise("ValueError: Length of values does not match length of index")
                  /\ UNCHANGED <<mu, cov>>
             ELSE IF Len(req.returns) = 0
             THEN /\ mu' = <<>>
                  /\ cov' = <<>>
                  /\ Raise("ValueError: Invalid dimensions (0,)")
             ELSE /\ mu' = Mean(req.returns, req.interval)
                  /\ cov' = Cov(req.returns, req.interval)
                  /\ pc' = "inv"
                  /\ UNCHANGED <<exception, response>>
    /\ UNCHANGED <<w_min, min_return, max_return, visited, solves,
                   frontier_points, point_targets, memo>>
    /\ UNCHANGED other_vars

Receive == ReceiveFrom(Requests, FaultSchedules)

\* Line 98, np.linalg.inv(cov), and lines 234-252 when it raises LinAlgError.
\* On a covariance of NaN the numerical libraries raise at the inversion or at
\* the first solve; whether what they raise is a LinAlgError is not fixed.
InvertCov ==
    /\ pc = "inv"
    /\ \E raises \in IF CovIsNaN(request.returns) THEN {TRUE, FALSE}
                      ELSE InvRaises(cov) :
          IF raises
          THEN /\ exception' = "LinAlgError"
               /\ Finish(EfficientFrontierResponse(
                     <<>>, <<EqualWeightTangency(mu, cov, RfScaled(request))>>, <<>>))
          ELSE pc' = "solve_min" /\ UNCHANGED <<exception, response>>
    /\ UNCHANGED <<memo, request, faults, mu, cov, w_min, min_return, max_return, visited,
                   solves, frontier_points, point_targets>>
    /\ UNCHANGED other_vars

\* Lines 118-133: the minimum-variance solve.
SolveMin ==
    /\ pc = "solve_min"
    /\ \E out \in Solve(MinVarProblem(request), mu, cov,
                         IF CovIsNaN(request.returns) THEN "raise"
                         ELSE FaultAt(faults, "min", 0)) :
          IF out.raised
          THEN Raise("SolverError") /\ UNCHANGED <<w_min, min_return>>
          ELSE IF out.status # "optimal"
          THEN Raise("Min variance optimization failed")
               /\ UNCHANGED <<w_min, min_return>>
          ELSE /\ pc' = "solve_max"
               /\ w_min' = out.value[1]
               /\ min_return' = 2 * Dot(mu, out.value[1])
               /\ UNCHANGED <<exception, response>>
    /\ UNCHANGED <<memo, request, faults, mu, cov, max_return, visited, solves,
                   frontier_points, point_targets>>
    /\ UNCHANGED other_vars

\* Lines 136-160: the max-return solve, then the range of the sweep.
SolveMax ==
    /\ pc = "solve_max"
    /\ \E out \in Solve(MaxRetProblem(request), mu, cov, FaultAt(faults, "max", 0)) :
          IF out.raised
          THEN Raise("SolverError") /\ UNCHANGED max_return
          ELSE IF out.status # "optimal"
          THEN Raise("Max return optimization failed")
               /\ UNCHANGED max_return
          ELSE /\ pc' = "sweep"
               /\ max_return' = RangeFix(min_return, 2 * Dot(mu, out.value[1]))
               /\ UNCHANGED <<exception, response>>
    /\ UNCHANGED <<memo, request, faults, mu, cov, w_min, min_return, visited, solves,
                   frontier_points, point_targets>>
    /\ UNCHANGED other_vars

\* Lines 162-189: one iteration of the sweep, for target number visited + 1.
SweepStep ==
    /\ pc = "sweep"
    /\ visited < num_points
    /\ LET k == visited + 1
           target_return == TargetReturn(min_return, max_return, k)
       IN  \E out \in Solve(TargetProblem(request, target_return), mu, cov,
                            FaultAt(faults, "sweep", k)) :
              /\ visited' = k
              /\ solves' = Append(solves, out)
              /\ IF SweepRaises(out)
                 THEN /\ Raise("SolverError")
                      /\ UNCHANGED <<frontier_points, point_targets>>
                 ELSE /\ frontier_points' = frontier_points \o Accepted(out, mu, cov)
                      /\ point_targets' =
                            IF Accepted(out, mu, cov) # <<>>
                            THEN Append(point_targets, k) ELSE point_targets
                      /\ pc' = IF k = num_points THEN "tangency" ELSE "sweep"
                      /\ UNCHANGED <<exception, response>>
    /\ UNCHANGED <<memo, request, faults, mu, cov, w_min, min_return, max_return>>
    /\ UNCHANGED other_vars

\* Lines 191-232: tangency selection, capital market line, response.
Respond ==
    /\ pc = "tangency"
    /\ LET tangency == SelectTangency(frontier_points, w_min, mu, cov, RfScaled(request))
           cml_points == CapitalMarketLine(frontier_points, tangency, RfScaled(request))
       IN  Finish(EfficientFrontierResponse(frontier_points, tangency, cml_points))
    /\ UNCHANGED <<memo, request, faults, mu, cov, w_min, min_return, max_return, visited,
                   solves, frontier_points, point_targets, exception>>
    /\ UNCHANGED other_vars

\* A faulty variant of Forget: frontier_points is a list of the module, not of
\* the call, and keeps its points from one request to the next.
ForgetAllButFrontier ==
    /\ pc' = "idle"
    /\ request' = NoRequest
    /\ faults' = NoFaults
    /\ mu' = <<>>
    /\ cov' = <<>>
    /\ w_min' = <<>>
    /\ min_return' = 0
    /\ max_return' = 0
    /\ visited' = 0
    /\ solves' = <<>>
    /\ UNCHANGED frontier_points
    /\ point_targets' = <<>>
    /\ exception' = "none"
    /\ response' = NoResponse

\* The call is over: everything the handler computed is local to the call (the
\* module has no variable besides the router), so nothing of it is left.
Forget ==
    /\ pc' = "idle"
    /\ request' = NoRequest
    /\ faults' = NoFaults
    /\ mu' = <<>>
    /\ cov' = <<>>
    /\ w_min' = <<>>
    /\ min_return' = 0
    /\ max_return' = 0
    /\ visited' = 0
    /\ solves' = <<>>
    /\ frontier_points' = <<>>
    /\ point_targets' = <<>>
    /\ exception' = "none"
    /\ response' = NoResponse

\* The response is sent; the worker waits for the next request.
Return ==
    /\ pc = "done"
    /\ Forget
    /\ UNCHANGED memo
    /\ UNCHANGED other_vars

Next ==
    \/ Receive
    \/ InvertCov
    \/ SolveMin
    \/ SolveMax
    \/ SweepStep
    \/ Respond
    \/ Return

Spec == Init /\ [][Next]_vars

\* --------------------------------------------- the same request served twice

\* A served request as an observer records it: the request, what the solver did
\* for it (its fault schedule, whether the inversion raised, the values of the
\* two bounding solves and the outcome of every sweep solve) and the response.
Served ==
    [request |-> request,
     solver |-> [faults |-> faults, inv_raised |-> exception = "LinAlgError",
                 w_min |-> w_min, max_return |-> max_return, solves |-> solves],
     response |-> response]

\* The response is sent and the observer keeps the served request (once).
Remember ==
    /\ pc = "done"
    /\ memo = <<>>
    /\ memo' = <<Served>>
    /\ Forget
    /\ UNCHANGED other_vars

\* The requests sent again and again: a regular pair of assets, a pair of
\* correlation -1 (the inversion may raise or not) and a single asset.
TwiceRequests ==
    [returns : { << <<1, 0, 2>>, <<0, 1, 0>> >>,
                 << <<1, 0, 2>>, <<0, 1, -1>> >>,
                 << <<1, 0, 2>> >> },
     rf : {5}, allow_short : BOOLEAN,
     max_weight : {WeightDen - 1, WeightDen}, interval : {"1d"}]

TwiceSchedules ==
    {NoFaults, [where |-> "sweep", at |-> {1}, kind |-> "user_limit"]}

ReceiveTwice == ReceiveFrom(TwiceRequests, TwiceSchedules)

NextTwice ==
    \/ ReceiveTwice
    \/ InvertCov
    \/ SolveMin
    \/ SolveMax
    \/ SweepStep
    \/ Respond
    \/ Return
    \/ Remember

SpecTwice == Init /\ [][NextTwice]_vars

\* ------------------------------------------------- requests of three assets

\* Monthly series: three assets over four months (annualized means 9, 15 and
\* -3 u, covariance regular), and the regular pair of assets (12 and 4 u).
WideTables ==
    { << <<2, 0, 1, 0>>, <<2, 1, 2, 0>>, <<1, 0, -1, -1>> >>,
      << <<1, 0, 2>>, <<0, 1, 0>> >> }

\* request.rf, in u: below the mean of the best asset of either table, and
\* above the mean of every asset.
WideRiskFreeRates == {5, 17}

WideRequests ==
    [returns : WideTables, rf : WideRiskFreeRates, allow_short : BOOLEAN,
     max_weight : {WeightDen - 1, WeightDen}, interval : {"1mo"}]

WideSchedules ==
    {NoFaults, [where |-> "sweep", at |-> {1}, kind |-> "user_limit"]}

ReceiveWide == ReceiveFrom(WideRequests, WideSchedules)

NextWide ==
    \/ ReceiveWide
    \/ InvertCov
    \/ SolveMin
    \/ SolveMax
    \/ SweepStep
    \/ Respond
    \/ Return

SpecWide == Init /\ [][NextWide]_vars

\* ------------------------------------------- requests of every interval

\* request.interval is a plain string: the three intervals the handler knows,
\* an interval the data endpoint accepts but the handler does not know, and
\* the empty string.
AnyIntervals == {"1d", "1wk", "1mo", "1h", ""}

IntervalRequests ==
    [returns : { << <<1, 0, 2>>, <<0, 1, 0>> >>, << <<1, 0, 2>> >> },
     rf : {5}, allow_short : {FALSE},
     max_weight : {WeightDen - 1, WeightDen}, interval : AnyIntervals]

ReceiveInterval == ReceiveFrom(IntervalRequests, {NoFaults})

NextIntervals ==
    \/ ReceiveInterval
    \/ InvertCov
    \/ SolveMin
    \/ SolveMax
    \/ SweepStep
    \/ Respond
    \/ Return

SpecIntervals == Init /\ [][NextIntervals]_vars

\* ------------------------------------------------- serving POST /data/prices

\* Lines 147-164: a request arrives; it is answered from the cache when its key
\* is there, else the loop over its tickers begins.
FetchPrices ==
    /\ prices_pc = "idle"
    /\ \E req \in PriceRequests :
          /\ prices_request' = req
          /\ IF CacheKey(req) \in DOMAIN price_cache
             THEN /\ prices_response' = price_cache[CacheKey(req)]
                  /\ prices_pc' = "done"
             ELSE /\ prices_pc' = "loop"
                  /\ UNCHANGED prices_response
    /\ UNCHANGED <<USE_TWELVE_DATA, price_cache, ticker_at, prices_data,
                   returns_data, failed_tickers, calls, served_ok>>
    /\ UNCHANGED <<portfolio_vars, api_vars>>

\* Line 171 and line 130: the loop takes the next ticker and fetch_ticker_data
\* turns to its first source.
NextTicker ==
    /\ prices_pc = "loop"
    /\ ticker_at < Len(prices_request.tickers)
    /\ ticker_at' = ticker_at + 1
    /\ prices_pc' = FirstSource(USE_TWELVE_DATA)
    /\ UNCHANGED <<USE_TWELVE_DATA, price_cache, prices_request, prices_data,
                   returns_data, failed_tickers, calls, prices_response, served_ok>>
    /\ UNCHANGED <<portfolio_vars, api_vars>>

\* Lines 176-221: the data of the current ticker are turned into its price list
\* and its return list.
Converted(series) ==
    LET ticker == prices_request.tickers[ticker_at]
    IN  /\ prices_data' = Put(prices_data, ticker, PriceList(series))
        /\ returns_data' =
              Put(returns_data, ticker, ReturnList(series, prices_request.log_returns))

\* Lines 131-134: Twelve Data is asked; with data fetch_ticker_data returns,
\* without it goes on to yfinance.
AskTwelveData ==
    /\ prices_pc = "twelve"
    /\ \E out \in TwelveDataOutcomes :
          LET got == fetch_with_twelve_data(prices_request.tickers[ticker_at], out)
          IN  /\ calls' = Append(calls, [at |-> ticker_at, source |-> "Twelve Data",
                                         data |-> got.data])
              /\ IF got.data # <<>>
                 THEN /\ Converted(got.data[1])
                      /\ prices_pc' = "loop"
                 ELSE /\ prices_pc' = "yfinance"
                      /\ UNCHANGED <<prices_data, returns_data>>
    /\ UNCHANGED <<USE_TWELVE_DATA, price_cache, prices_request, ticker_at,
                   failed_tickers, prices_response, served_ok>>
    /\ UNCHANGED <<portfolio_vars, api_vars>>

\* Lines 137-143 and 223-226: yfinance is asked; with data fetch_ticker_data
\* returns, without it raises and the ticker is listed as failed.
AskYfinance ==
    /\ prices_pc = "yfinance"
    /\ \E out \in YfinanceOutcomes :
          LET got == fetch_with_yfinance(prices_request.tickers[ticker_at], out)
          IN  /\ calls' = Append(calls, [at |-> ticker_at, source |-> "yfinance",
                                         data |-> got.data])
              /\ IF got.data # <<>>
                 THEN /\ Converted(got.data[1])
                      /\ UNCHANGED failed_tickers
                 ELSE /\ failed_tickers' =
                            Append(failed_tickers, prices_request.tickers[ticker_at])
                      /\ UNCHANGED <<prices_data, returns_data>>
    /\ prices_pc' = "loop"
    /\ UNCHANGED <<USE_TWELVE_DATA, price_cache, prices_request, ticker_at,
                   prices_response, served_ok>>
    /\ UNCHANGED <<portfolio_vars, api_vars>>

\* Lines 228-253: the loop is over.  503 if every ticker failed, the partial
\* data without caching if some did, else the response is cached and returned.
FinishPrices ==
    /\ prices_pc = "loop"
    /\ ticker_at = Len(prices_request.tickers)
    /\ IF AllFailed(failed_tickers, prices_request.tickers)
       THEN /\ prices_response' =
                  PricesExcept(HTTPError(503, <<"Failed to fetch data for all tickers: ",
                                                prices_request.tickers>>))
            /\ UNCHANGED price_cache
       ELSE IF SkipCache(failed_tickers)
       THEN /\ prices_response' = FetchPricesResponse(prices_data, returns_data)
            /\ UNCHANGED price_cache
       ELSE /\ prices_response' = FetchPricesResponse(prices_data, returns_data)
            /\ price_cache' =
                  CacheStore(price_cache, CacheKey(prices_request),
                             FetchPricesResponse(prices_data, returns_data))
    /\ prices_pc' = "done"
    /\ UNCHANGED <<USE_TWELVE_DATA, prices_request, ticker_at, prices_data,
                   returns_data, failed_tickers, calls, served_ok>>
    /\ UNCHANGED <<portfolio_vars, api_vars>>

\* The response is sent and the locals of the call are gone; the cache stays.
\* served_ok records the request if it fetched every ticker.
ReturnPrices ==
    /\ prices_pc = "done"
    /\ prices_pc' = "idle"
    /\ prices_request' = NoPricesRequest
    /\ ticker_at' = 0
    /\ prices_data' = EmptyDict
    /\ returns_data' = EmptyDict
    /\ failed_tickers' = <<>>
    /\ calls' = <<>>
    /\ prices_response' = NoPricesResponse
    /\ served_ok' =
          IF calls # <<>> /\ failed_tickers = <<>>
          THEN served_ok \cup {[request |-> prices_request, response |-> prices_response]}
          ELSE served_ok
    /\ UNCHANGED <<USE_TWELVE_DATA, price_cache>>
    /\ UNCHANGED <<portfolio_vars, api_vars>>

\* The module is loaded with or without TWELVE_DATA_API_KEY in the environment.
InitPrices ==
    /\ PortfolioIdle
    /\ USE_TWELVE_DATA \in BOOLEAN
    /\ PricesIdle
    /\ ApiIdle

NextPrices ==
    \/ FetchPrices
    \/ NextTicker
    \/ AskTwelveData
    \/ AskYfinance
    \/ FinishPrices
    \/ ReturnPrices

SpecPrices == InitPrices /\ [][NextPrices]_vars

\* ------------------------------------------ serving the regression endpoints

\* Exception e is raised in the body of the handler; resp is what its except
\* clauses raise in turn.
ApiRaise(e, resp) ==
    /\ api_raised' = <<e>>
    /\ api_response' = resp
    /\ api_pc' = "done"

\* model.py, lines 41-68: the frame is built column by column, the market proxy
\* is looked up.
RunCapm ==
    /\ api_pc = "idle"
    /\ \E req \in CAPMRequests :
          /\ api_handler' = "run_capm"
          /\ api_request' = req
          /\ IF RaggedFrame(req.returns)
             THEN LET e == Exc("ValueError", 0,
                               "Length of values does not match length of index")
                  IN  ApiRaise(e, Rewrapped("Error running CAPM: ", e))
             ELSE IF ~HasColumn(req.returns, req.market)
             THEN LET e == Exc("HTTPException", 400,
                               "Market proxy not found in returns data")
                  IN  ApiRaise(e, Rewrapped("Error running CAPM: ", e))
             ELSE /\ api_pc' = "capm_loop"
                  /\ UNCHANGED <<api_raised, api_response>>
    /\ UNCHANGED <<capm_at, results, grs>>
    /\ UNCHANGED <<portfolio_vars, prices_vars>>

\* model.py, lines 70-113: one iteration of the loop over the columns.  When
\* add_constant has skipped the constant the regression has one coefficient and
\* model.params[1] raises IndexError.
CapmTicker ==
    /\ api_pc = "capm_loop"
    /\ capm_at < Len(api_request.returns)
    /\ capm_at' = capm_at + 1
    /\ LET asset == api_request.returns[capm_at + 1]
           market == ColumnOf(api_request.returns, api_request.market)
           rows == CleanRows(market, asset)
       IN  IF asset.ticker = api_request.market \/ Cardinality(rows) < 10
           THEN UNCHANGED <<results, api_pc, api_raised, api_response>>
           ELSE IF /\ market.missing = {}
                   /\ ConstantSkipped(market.values, 1..Len(market.values),
                                      api_request.rf,
                                      PeriodsPerYear(api_request.interval, 52))
           THEN LET e == Exc("IndexError", 0, "index 1 is out of bounds")
                IN  /\ ApiRaise(e, Rewrapped("Error running CAPM: ", e))
                    /\ UNCHANGED results
           ELSE /\ results' = Append(results, CAPMResult(asset.ticker, rows))
                /\ UNCHANGED <<api_pc, api_raised, api_response>>
    /\ UNCHANGED <<api_handler, api_request, grs>>
    /\ UNCHANGED <<portfolio_vars, prices_vars>>

\* model.py, lines 115-135: the security market line and the response.
CapmRespond ==
    /\ api_pc = "capm_loop"
    /\ capm_at = Len(api_request.returns)
    /\ api_response' =
          CAPMResponse(results, SecurityMarketLine(results), api_request.market)
    /\ api_pc' = "done"
    /\ UNCHANGED <<api_handler, api_request, api_raised, capm_at, results, grs>>
    /\ UNCHANGED <<portfolio_vars, prices_vars>>

\* ff_factors.py, lines 481-517 and 266-302: the factor file is loaded (or not),
\* the portfolios become series, compute_grs_test aligns them with the factors
\* and checks the number of observations.
GrsTest ==
    /\ api_pc = "idle"
    /\ \E req \in GRSTestRequests, loaded \in BOOLEAN :
          /\ api_handler' = "grs_test"
          /\ api_request' = req
          /\ LET K == IF req.model = "FF3" THEN 3 ELSE 5
                 N == Len(req.portfolios)
                 T == Cardinality(Merged(req.portfolios, FactorMonths(req)))
             IN  IF ~loaded
                 THEN LET e == Exc("HTTPException", 500, "Error loading factor data")
                      IN  /\ ApiRaise(e, Rewrapped("Error performing GRS test: ", e))
                          /\ UNCHANGED grs
                 ELSE IF \E i \in 1..N : req.portfolios[i] = {}
                 THEN LET e == Exc("KeyError", 0, "None of ['date'] are in the columns")
                      IN  /\ ApiRaise(e, Rewrapped("Error performing GRS test: ", e))
                          /\ UNCHANGED grs
                 ELSE /\ grs' = [T |-> T, N |-> N, K |-> K]
                      /\ IF T = 0
                         THEN LET e == Exc("HTTPException", 400,
                                           "No overlapping dates between portfolio and factor data after alignment")
                              IN  ApiRaise(e, Rewrapped("Error performing GRS test: ", e))
                         ELSE IF T < MinObs(N, K)
                         THEN LET e == Exc("HTTPException", 400,
                                           "Insufficient data for GRS test")
                              IN  ApiRaise(e, Rewrapped("Error performing GRS test: ", e))
                         ELSE /\ api_pc' = "grs_stat"
                              /\ UNCHANGED <<api_raised, api_response>>
    /\ UNCHANGED <<capm_at, results>>
    /\ UNCHANGED <<portfolio_vars, prices_vars>>

\* ff_factors.py, lines 304-347 and 519-536: the regressions, the inverse of the
\* residual covariance, the statistic and the response.
GrsStatistic ==
    /\ api_pc = "grs_stat"
    /\ \E raises \in SigmaInvRaises(grs.N) :
          IF raises
          THEN LET e == Exc("HTTPException", 500, "Singular matrix in GRS computation")
               IN  ApiRaise(e, Rewrapped("Error performing GRS test: ", e))
          ELSE /\ api_response' =
                     GRSTestResponse(api_request.model,
                                     GRSStatistic(grs.T, grs.N, grs.K), grs.N, grs.T)
               /\ api_pc' = "done"
               /\ UNCHANGED api_raised
    /\ UNCHANGED <<api_handler, api_request, capm_at, results, grs>>
    /\ UNCHANGED <<portfolio_vars, prices_vars>>

\* risk.py, lines 153-250.
CalculateMultiAssetMetrics ==
    /\ api_pc = "idle"
    /\ \E req \in MultiAssetRequests :
          /\ api_handler' = "calculate_multi_asset_metrics"
          /\ api_request' = req
          /\ IF RaggedFrame(req.assets)
             THEN LET e == Exc("ValueError", 0, "All arrays must be of the same length")
                  IN  ApiRaise(e, MetricsExcept(e))
             ELSE IF Cardinality(DropNa(req.assets)) < 2
             THEN LET e == Exc("HTTPException", 400,
                               "Insufficient data points after cleaning (need at least 2)")
                  IN  ApiRaise(e, MetricsExcept(e))
             ELSE IF ~HasColumn(req.assets, req.market_ticker)
             THEN LET e == Exc("HTTPException", 400, "Market ticker not found in assets")
                  IN  ApiRaise(e, MetricsExcept(e))
             ELSE /\ api_response' = ApiResponse(MetricsList(req))
                  /\ api_pc' = "done"
                  /\ UNCHANGED api_raised
    /\ UNCHANGED <<capm_at, results, grs>>
    /\ UNCHANGED <<portfolio_vars, prices_vars>>

\* risk.py, lines 269-323; `found` are the targets whose minimization succeeds.
CalculateLpmFrontier ==
    /\ api_pc = "idle"
    /\ \E req \in LPMFrontierRequests :
          /\ api_handler' = "calculate_lpm_frontier"
          /\ api_request' = req
          /\ IF RaggedFrame(req.assets)
             THEN LET e == Exc("ValueError", 0, "All arrays must be of the same length")
                  IN  ApiRaise(e, Rewrapped("Error calculating LPM frontier: ", e))
             ELSE IF Cardinality(DropNa(req.assets)) < 2
             THEN LET e == Exc("HTTPException", 400,
                               "Insufficient data points for LPM frontier (need at least 2)")
                  IN  ApiRaise(e, Rewrapped("Error calculating LPM frontier: ", e))
             ELSE \E found \in SUBSET (1..req.num_points) :
                     /\ api_response' =
                           ApiResponse([frontier |-> found, tau |-> req.tau, n |-> req.n])
                     /\ api_pc' = "done"
                     /\ UNCHANGED api_raised
    /\ UNCHANGED <<capm_at, results, grs>>
    /\ UNCHANGED <<portfolio_vars, prices_vars>>

\* The response is sent; nothing of the call is left.
ApiReturn ==
    /\ api_pc = "done"
    /\ api_pc' = "idle"
    /\ api_handler' = "none"
    /\ api_request' = NoApiRequest
    /\ api_raised' = <<>>
    /\ api_response' = NoApiResponse
    /\ capm_at' = 0
    /\ results' = <<>>
    /\ grs' = NoGrs
    /\ UNCHANGED <<portfolio_vars, prices_vars>>

NextEndpoints ==
    \/ RunCapm
    \/ CapmTicker
    \/ CapmRespond
    \/ GrsTest
    \/ GrsStatistic
    \/ CalculateMultiAssetMetrics
    \/ CalculateLpmFrontier
    \/ ApiReturn

SpecEndpoints == Init /\ [][NextEndpoints]_vars

\* ------------------------------------------------------------ properties

Range(seq) == {seq[i] : i \in 1..Len(seq)}

n_assets == Len(mu)

\* The frontier points built so far and those of the response.
AllPoints == Range(frontier_points) \cup Range(response.frontier)

\* The handler has returned a normal response.
Responded == pc = "done" /\ response.kind = "response"

\* C1: every frontier point, while the sweep builds the list and in the
\* response, has weights that sum to 1.
C1_WeightsSumToOne ==
    \A p \in AllPoints : SumTo(p.weights, Len(p.weights)) = WeightDen

\* A response whose frontier holds a point that splits the budget over two assets.
C1_Witness ==
    /\ Responded
    /\ \E p \in Range(response.frontier) :
          Len(p.weights) = 2 /\ p.weights[1] > 0 /\ p.weights[2] > 0

\* C2: when allow_short is false no weight of a frontier point, nor of the
\* tangency portfolio of the response, is negative.
C2_LongOnly ==
    ~request.allow_short =>
        /\ \A p \in AllPoints : \A i \in 1..Len(p.weights) : p.weights[i] >= 0
        /\ \A t \in Range(response.tangency) :
              \A i \in 1..Len(t.weights) : t.weights[i] >= 0

\* A long-only response with a frontier point on the boundary w[i] = 0, and the
\* rest of the sweep infeasible because going further needs a short position.
C2_Witness ==
    /\ Responded
    /\ ~request.allow_short
    /\ \E p \in Range(response.frontier) : \E i \in 1..Len(p.weights) : p.weights[i] = 0
    /\ solves[num_points].status = "infeasible"

\* C3: when max_weight < 1 no weight of a frontier point exceeds max_weight.
C3_WeightCap ==
    request.max_weight < WeightDen =>
        \A p \in AllPoints : \A i \in 1..Len(p.weights) : p.weights[i] <= request.max_weight

\* A capped response (cap above 1/2) with a frontier point at the cap.
C3_Witness ==
    /\ Responded
    /\ request.max_weight < WeightDen
    /\ request.max_weight > GridHalf
    /\ \E p \in Range(response.frontier) :
          \E i \in 1..Len(p.weights) : p.weights[i] = request.max_weight

\* The target return of target number k of the running sweep.
TargetOf(k) == TargetReturn(min_return, max_return, k)

\* C4: the frontier list is ordered by non-decreasing target return: for any two
\* points at positions i < j, the target that produced point i is at most the
\* target that produced point j.
C4_TargetsNonDecreasing ==
    \A i, j \in 1..Len(point_targets) :
        i < j => TargetOf(point_targets[i]) <= TargetOf(point_targets[j])

\* (return - rf) / risk of a frontier point.
PointSharpe(p) == SharpeOf(p.return_, p.risk_sq, RfScaled(request))

\* a >= b for two Sharpe ratios.
SharpeAtLeast(a, b) == RatioCmp(a.num, a.sq, b.num, b.sq) >= 0

\* C5: when the frontier of the response is not empty, the Sharpe ratio of the
\* tangency portfolio is at least (return - rf) / risk of every frontier point,
\* and the tangency's risk, return and weights are those of a frontier point.
C5_TangencyMaxSharpe ==
    (Responded /\ response.frontier # <<>>) =>
        /\ Len(response.tangency) = 1
        /\ \A p \in Range(response.frontier) :
              SharpeAtLeast(response.tangency[1].sharpe, PointSharpe(p))
        /\ \E p \in Range(response.frontier) :
              /\ response.tangency[1].risk_sq = p.risk_sq
              /\ response.tangency[1].return_ = p.return_
              /\ response.tangency[1].weights = p.weights
              /\ response.tangency[1].sharpe = PointSharpe(p)

\* A response whose tangency is neither the first nor the last frontier point
\* and beats both strictly.
C5_Witness ==
    /\ Responded
    /\ Len(response.frontier) >= 3
    /\ LET first == response.frontier[1]
           last == response.frontier[Len(response.frontier)]
           tan == response.tangency[1]
       IN  /\ ~SharpeAtLeast(PointSharpe(first), tan.sharpe)
           /\ ~SharpeAtLeast(PointSharpe(last), tan.sharpe)

\* The sweep solves that reported a status other than 'optimal'.
NotOptimal == {k \in 1..Len(solves) : ~solves[k].raised /\ solves[k].status # "optimal"}

\* C6: a sweep solve that reports a status other than 'optimal' adds no frontier
\* point and raises no error; the sweep goes on, so that unless the solver itself
\* raises, all 50 targets are visited and the request returns a normal response
\* with at most 50 frontier points.
C6_PermissiveSweep ==
    /\ \A k \in NotOptimal :
          /\ k \notin Range(point_targets)
          /\ ~(visited = k /\ exception # "none")
          /\ visited = k =>
                IF k = num_points THEN pc = "tangency" \/ Responded ELSE pc = "sweep"
    /\ pc = "tangency" => visited = num_points
    /\ (pc = "done" /\ visited >= 1 /\ ~solves[visited].raised) =>
          /\ visited = num_points
          /\ response.kind = "response"
          /\ Len(response.frontier) <= num_points

\* A normal response after a sweep in which a target without an optimal solve
\* was followed by a target that gave a frontier point.
C6_Witness ==
    /\ Responded
    /\ \E k \in NotOptimal : k + 1 \in Range(point_targets)

\* C7: a point is in the frontier exactly when the solve for its target reported
\* 'optimal' with a weight vector whose risk is strictly positive; the point is
\* that of the solve's weights, and the response's frontier is this list.
C7_AcceptedIffOptimalPositiveRisk ==
    /\ \A k \in 1..Len(solves) :
          ~solves[k].raised =>
              (k \in Range(point_targets) <=>
                  /\ solves[k].status = "optimal"
                  /\ solves[k].value # <<>>
                  /\ QuadForm(solves[k].value[1], cov) > 0)
    /\ Len(point_targets) = Len(frontier_points)
    /\ \A i \in 1..Len(point_targets) :
          /\ point_targets[i] \in 1..Len(solves)
          /\ solves[point_targets[i]].value # <<>>
          /\ frontier_points[i] = FrontierPoint(solves[point_targets[i]].value[1], mu, cov)
          /\ \A j \in 1..Len(point_targets) : i < j => point_targets[i] < point_targets[j]
    /\ \A p \in AllPoints : p.risk_sq > 0
    /\ (Responded /\ visited > 0) => response.frontier = frontier_points

\* A response for which one optimal solve had risk zero and was left out while
\* another gave a frontier point.
C7_Witness ==
    /\ Responded
    /\ response.frontier # <<>>
    /\ \E k \in 1..Len(solves) :
          /\ solves[k].status = "optimal"
          /\ QuadForm(solves[k].value[1], cov) = 0

\* The minimum-variance portfolio of the direct solve, as a tangency portfolio.
MinVarPortfolio ==
    TangencyPortfolio(QuadForm(w_min, cov), Dot(mu, w_min),
        IF QuadForm(w_min, cov) > 0
        THEN SharpeOf(Dot(mu, w_min), QuadForm(w_min, cov), RfScaled(request))
        ELSE ZeroSharpe,
        w_min)

C9_SingularGivesEqualWeight ==
    exception = "LinAlgError" =>
        /\ Responded
        /\ response.frontier = <<>>
        /\ response.cml = <<>>
        /\ Len(response.tangency) = 1
        /\ LET tan == response.tangency[1]
           IN  /\ Len(tan.weights) = n_assets
               /\ \A i \in 1..n_assets : tan.weights[i] * n_assets = WeightDen
               /\ tan.return_ = Dot(mu, tan.weights)
               /\ tan.risk_sq = QuadForm(tan.weights, cov)
               /\ tan.sharpe = IF tan.risk_sq > 0
                               THEN SharpeOf(tan.return_, tan.risk_sq, RfScaled(request))
                               ELSE ZeroSharpe

\* The inversion raised for two assets of correlation -1: the equal-weight
\* portfolio has risk 0 and a return other than rf, and its Sharpe ratio is 0.
C9_Witness ==
    /\ pc = "done"
    /\ exception = "LinAlgError"
    /\ n_assets = 2
    /\ response.tangency[1].risk_sq = 0
    /\ response.tangency[1].return_ # RfScaled(request)
    /\ response.tangency[1].sharpe = ZeroSharpe

\* C10: every failure inside the handler other than the handled LinAlgError ends
\* the request with one HTTPException of status 500 whose detail carries the
\* message; the caller sees no other status and no other exception.
C10_FailuresAre500 ==
    /\ exception \notin {"none", "LinAlgError"} =>
          /\ pc = "done"
          /\ response.kind = "HTTPException"
          /\ response.status_code = 500
          /\ response.detail = <<"Error calculating efficient frontier: ", exception>>
    /\ response.kind \in {"none", "response", "HTTPException"}
    /\ response.kind = "HTTPException" => response.status_code = 500
    /\ (pc = "done" /\ exception \in {"none", "LinAlgError"}) => response.kind = "response"

\* Each kind of failure has happened: here the solver raised in the middle of
\* the sweep, after frontier points had been built.
C10_Witness ==
    /\ pc = "done"
    /\ exception = "SolverError"
    /\ frontier_points # <<>>
    /\ response.kind = "HTTPException"

\* The request being served is malformed: a negative max_weight, or a returns
\* mapping with no asset.
Malformed == request.max_weight < 0 \/ Len(request.returns) = 0

\* C11: a malformed request (a negative max_weight, or an empty returns mapping)
\* is rejected with an invalid-request error of a 4xx status, never with the
\* status 500 of a computation failure and never answered normally.
C11_MalformedRejected4xx ==
    (pc = "done" /\ Malformed) =>
        /\ response.kind = "HTTPException"
        /\ response.status_code \in 400..499

\* C12: a request whose series hold fewer than two observations ends in a
\* dedicated insufficient-data error, raised before any mean or covariance is
\* estimated and before any solve.
C12_InsufficientDataRejected ==
    (pc # "idle" /\ Len(request.returns) > 0 /\ ~Ragged(request.returns)
                /\ Rows(request.returns) < 2) =>
        /\ exception = "InsufficientDataError"
        /\ mu = <<>>
        /\ cov = <<>>
        /\ w_min = <<>>

\* The length of the shortest series of a table.
MinLen(returns) ==
    CHOOSE n \in {Len(returns[i]) : i \in 1..Len(returns)} :
        \A i \in 1..Len(returns) : n <= Len(returns[i])

\* The table cut to the length of its shortest series.
Truncated(returns) ==
    [i \in 1..Len(returns) |-> SubSeq(returns[i], 1, MinLen(returns))]

\* C13: series of different lengths are accepted: no exception is raised for
\* them, and the mean and the covariance are estimated from the series cut to
\* the length of the shortest.
C13_RaggedTruncated ==
    (pc # "idle" /\ Ragged(request.returns)) =>
        /\ exception = "none"
        /\ mu = Mean(Truncated(request.returns), request.interval)
        /\ cov = Cov(Truncated(request.returns), request.interval)

\* C14: a request for at least two assets whose mean returns differ, with
\* allow_short true and max_weight at its default 1.0, is answered normally: the
\* max-return solve reports 'optimal' and the request does not end in an error
\* (the solver doing nothing but solving).
C14_ShortMaxReturnOptimal ==
    (/\ pc = "done"
     /\ Len(request.returns) >= 2
     /\ ~Ragged(request.returns)
     /\ Rows(request.returns) >= 2
     /\ request.allow_short
     /\ request.max_weight = WeightDen
     /\ faults = NoFaults
     /\ \E i, j \in 1..n_assets : mu[i] # mu[j]) =>
        /\ Responded
        /\ exception # "Max return optimization failed"

\* C15: two identical requests get identical responses whatever was served
\* before or in between: nothing of an earlier request is left in the handler,
\* and the response is a function of the request and of what the solver
\* returned for it.  The kept request was served earlier (Remember ends its
\* call); the one compared with it is served now.
C15_SameRequestSameResponse ==
    (/\ pc = "done"
     /\ memo # <<>>
     /\ memo[1].request = request
     /\ memo[1].solver = Served.solver) =>
        response = memo[1].response

\* The same request is served a second time, the solver answering as before,
\* and both servings gave a frontier; and a request of another kind was the
\* one kept while this one is served.
C15_Witness ==
    /\ Responded
    /\ memo # <<>>
    /\ memo[1].request = request
    /\ memo[1].solver = Served.solver
    /\ Len(response.frontier) >= 2
    /\ response.cml # <<>>

\* The largest risk of the response's frontier, squared.
MaxFrontierRiskSq ==
    CHOOSE v \in {p.risk_sq : p \in Range(response.frontier)} :
        \A p \in Range(response.frontier) : p.risk_sq <= v

\* The capital market line of the response is the list of 50 points (risk,
\* return) with return = rf + (tangency.return - rf) / tangency.risk * risk, the
\* risks evenly spaced and increasing from 0 (so the first point is (0, rf)) to
\* 1.5 times the largest frontier risk, or to 2 times the tangency risk when
\* the frontier is empty.
CmlIsTheLine ==
        LET tan == response.tangency[1]
            cml == response.cml
            rfs == RfScaled(request)
        IN  /\ Len(cml) = num_points
            /\ cml[1].risk_num = 0 /\ cml[1].excess_num = 0 /\ cml[1].rf = rfs
            /\ \A k \in 1..num_points :
                  \* the risk: step k - 1 of 49 towards max_risk
                  /\ cml[k].risk_sq > 0
                  /\ IF response.frontier # <<>>
                     THEN /\ cml[k].risk_sq = MaxFrontierRiskSq
                          /\ cml[k].risk_num = (k - 1) * 3
                     ELSE /\ cml[k].risk_sq = tan.risk_sq
                          /\ cml[k].risk_num = (k - 1) * 4
                  /\ k > 1 => cml[k].risk_num > cml[k - 1].risk_num
                  \* the return: rf + slope * risk
                  /\ cml[k].rf = rfs
                  /\ cml[k].excess_num = (tan.return_ - rfs) * cml[k].risk_num
                  /\ cml[k].excess_sq_num = cml[k].risk_sq
                  /\ cml[k].excess_sq_den = tan.risk_sq

\* C16 as stated: whenever the tangency risk of a response is positive, its
\* capital market line is that list.
C16_CapitalMarketLine ==
    (Responded /\ response.tangency[1].risk_sq > 0) => CmlIsTheLine

\* C16, amended: whenever the tangency risk of a response is positive and the
\* response is not the equal-weight fallback for a covariance that could not be
\* inverted (whose line is empty whatever its risk), its capital market line is
\* that list.
C16_CapitalMarketLineUnlessFallback ==
    (Responded /\ exception # "LinAlgError" /\ response.tangency[1].risk_sq > 0) =>
        CmlIsTheLine

\* A response whose line runs to 1.5 times the largest frontier risk, which is
\* not the tangency's risk, with a positive rf and a positive slope.
C16_Witness ==
    /\ Responded
    /\ response.frontier # <<>>
    /\ Len(response.cml) = num_points
    /\ response.cml[1].rf > 0
    /\ response.cml[num_points].excess_num > 0
    /\ response.cml[num_points].risk_sq # response.tangency[1].risk_sq

\* C17: when the tangency risk is zero the capital market line is empty and
\* the Sharpe ratio reported is 0; no point of any line divides by a tangency
\* risk of zero.
C17_ZeroRiskTangency ==
    /\ (Responded /\ response.tangency[1].risk_sq = 0) =>
          /\ response.cml = <<>>
          /\ response.tangency[1].sharpe = ZeroSharpe
    /\ \A p \in Range(response.cml) : p.excess_sq_den > 0
    /\ \A t \in Range(response.tangency) : t.sharpe.sq > 0

\* The sweep was completed for two assets of correlation -1 and left no point:
\* the tangency is the minimum-variance portfolio, of risk zero and of a return
\* other than rf.
C17_Witness ==
    /\ Responded
    /\ exception = "none"
    /\ visited = num_points
    /\ response.tangency[1].risk_sq = 0
    /\ response.tangency[1].return_ # RfScaled(request)
    /\ response.cml = <<>>

\* The point of the single asset of the request: weight 1, its own return and
\* its own risk.
OwnPoint == FrontierPoint(<<WeightDen>>, mu, cov)

\* p, a frontier point or a tangency portfolio, is the single asset's own point.
IsOwnPoint(p) ==
    /\ p.weights = OwnPoint.weights
    /\ p.return_ = OwnPoint.return_
    /\ p.risk_sq = OwnPoint.risk_sq

\* C18 as stated: for a request with exactly one asset, the frontier of the
\* response consists of one point, the asset's own (risk, return) with weight
\* 1, and the tangency portfolio equals that point.
C18_SingleAssetOnePoint ==
    (Responded /\ n_assets = 1 /\ exception = "none" /\ faults = NoFaults) =>
        /\ Len(response.frontier) = 1
        /\ IsOwnPoint(response.frontier[1])
        /\ IsOwnPoint(response.tangency[1])

\* C18, amended: for a request with exactly one asset, every point of the
\* frontier of the response is the asset's own (risk, return) with weight 1,
\* and so is the tangency portfolio; the frontier holds one copy of the point
\* for each target return the asset meets, not one point: when the solver does
\* nothing but solve and the asset's risk is positive, 4 copies for a positive
\* mean (targets 1 to 4 of 50) and 46 for a negative mean (targets 5 to 50).
C18_SingleAssetCopies ==
    (Responded /\ n_assets = 1) =>
        /\ \A p \in Range(response.frontier) : IsOwnPoint(p)
        /\ IsOwnPoint(response.tangency[1])
        /\ (exception = "none" /\ faults = NoFaults /\ mu[1] > 0) =>
              /\ Len(response.frontier) = 4
              /\ point_targets = <<1, 2, 3, 4>>
        /\ (exception = "none" /\ faults = NoFaults /\ mu[1] < 0) =>
              /\ Len(response.frontier) = num_points - 4
              /\ point_targets[1] = 5

\* A single asset of positive mean and positive risk was answered with four
\* copies of its point.
C18_Witness ==
    /\ Responded
    /\ n_assets = 1
    /\ faults = NoFaults
    /\ mu[1] > 0
    /\ Len(response.frontier) = 4
    /\ response.frontier[1] = response.frontier[4]
    /\ IsOwnPoint(response.frontier[4])

\* float(mu @ w_max.value) as the max-return solve gave it (doubled), before the
\* range is fixed; every optimal w_max has the same return.
SolvedMaxReturn ==
    2 * Dot(mu, CHOOSE w \in ArgBest(MaxRetProblem(request), mu, cov) : TRUE)

\* C19: when the two bounding solves give min_return >= max_return, max_return
\* is replaced by min_return * 1.5 and the sweep is then not degenerate: its
\* last target is strictly greater than its first, whatever the sign of
\* min_return.
C19_RangeFixNonDegenerate ==
    (pc = "sweep" /\ visited = 0 /\ min_return >= SolvedMaxReturn) =>
        /\ 2 * max_return = 3 * min_return
        /\ TargetOf(num_points) > TargetOf(1)

\* rf is greater than the annualized mean return of every asset of the request.
RfAboveMeans ==
    /\ n_assets >= 1
    /\ \A i \in 1..n_assets : mu[i] * WeightDen < RfScaled(request)

\* Tangency selection completes when the sweep has, and what it selects from a
\* frontier that is not empty is a point of greatest Sharpe ratio, be it negative.
BestSharpeSelected ==
    /\ (pc = "done" /\ visited = num_points /\ ~solves[num_points].raised) =>
          Responded /\ Len(response.tangency) = 1
    /\ (Responded /\ response.frontier # <<>>) =>
          /\ \A p \in Range(response.frontier) :
                SharpeAtLeast(response.tangency[1].sharpe, PointSharpe(p))
          /\ \E p \in Range(response.frontier) :
                /\ response.tangency[1].sharpe = PointSharpe(p)
                /\ response.tangency[1].weights = p.weights

\* C20 as stated: when rf is greater than every asset's mean return, every
\* accepted frontier point has a non-positive Sharpe ratio, and tangency
\* selection still completes and returns a portfolio, a negative best Sharpe
\* ratio being selected all the same.
C20_RfAboveMeansNonPositiveSharpe ==
    RfAboveMeans =>
        /\ \A p \in AllPoints : PointSharpe(p).num <= 0
        /\ BestSharpeSelected

\* C20, amended: the same for requests with allow_short false.  With short
\* positions a portfolio may return more than every asset, and more than rf;
\* tangency selection completes all the same.
C20_LongOnlyNonPositiveSharpe ==
    RfAboveMeans =>
        /\ ~request.allow_short => \A p \in AllPoints : PointSharpe(p).num <= 0
        /\ BestSharpeSelected

\* A long-only response for an rf above every mean: the frontier has points of
\* different Sharpe ratios, all negative, and the tangency, of negative Sharpe
\* ratio, is not the first of them.
C20_Witness ==
    /\ Responded
    /\ RfAboveMeans
    /\ ~request.allow_short
    /\ response.frontier # <<>>
    /\ response.tangency[1].sharpe.num < 0
    /\ ~SharpeAtLeast(PointSharpe(response.frontier[1]), response.tangency[1].sharpe)

\* C21: with allow_short false and max_weight exactly 1/N (N assets), every
\* weight of every accepted frontier point, and of the minimum-variance
\* portfolio, is 1/N.
C21_EqualWeightsAtCap ==
    (~request.allow_short /\ n_assets > 0
        /\ request.max_weight * n_assets = WeightDen) =>
        /\ \A p \in AllPoints :
              \A i \in 1..Len(p.weights) : p.weights[i] * n_assets = WeightDen
        /\ \A i \in 1..Len(w_min) : w_min[i] * n_assets = WeightDen

\* A long-only response for two assets capped at 1/2 each: the frontier has a
\* point, and the sweep went on to targets that the equal weights do not meet.
C21_Witness ==
    /\ Responded
    /\ ~request.allow_short
    /\ n_assets = 2
    /\ request.max_weight = GridHalf
    /\ w_min = <<GridHalf, GridHalf>>
    /\ response.frontier # <<>>
    /\ solves[num_points].status = "infeasible"

\* The factor the interval stands for: 252 for "1d", 52 for "1wk", 12 for
\* "1mo", 252 for anything else.
IntervalFactor(interval) ==
    CASE interval = "1d" -> 252
      [] interval = "1wk" -> 52
      [] interval = "1mo" -> 12
      [] OTHER -> 252

\* T times the periodic mean of asset i of the request.
PeriodicMean(i) == SeqSum(request.returns[i])

\* T*(T-1) times the periodic sample covariance of assets i and j.
PeriodicCov(i, j) ==
    LET T == Rows(request.returns)
    IN  T * SumTo([t \in 1..T |-> request.returns[i][t] * request.returns[j][t]], T)
        - PeriodicMean(i) * PeriodicMean(j)

\* C22: once mu and cov are estimated, each entry of mu is the periodic mean
\* and each entry of cov the periodic covariance times one and the same
\* factor: 252 for "1d", 52 for "1wk", 12 for "1mo", 252 for any other interval.
C22_AnnualizationFactor ==
    mu # <<>> =>
        /\ \A i \in 1..Len(mu) :
              mu[i] = IntervalFactor(request.interval) * PeriodicMean(i)
        /\ \A i, j \in 1..Len(mu) :
              cov[i][j] = IntervalFactor(request.interval) * PeriodicCov(i, j)

\* A response for weekly returns whose mean and covariance are 52 times the
\* periodic ones (3 and 1 for the first asset, -1 between the assets).
C22_Witness ==
    /\ Responded
    /\ request.interval = "1wk"
    /\ Len(mu) = 2
    /\ mu[1] = 52 * 3
    /\ cov[1][2] = 52 * (-3)
    /\ response.frontier # <<>>

\* A response for an interval the handler does not know: the factor is 252.
C22_WitnessDefault ==
    /\ Responded
    /\ request.interval = "1h"
    /\ Len(mu) = 2
    /\ mu[1] = 252 * 3

\* ---------------------------------------------- properties of /data/prices

PricesDone == prices_pc = "done"

\* The request being served was not answered from the cache and every one of
\* its tickers was fetched.
AllFetched ==
    /\ PricesDone
    /\ calls # <<>>
    /\ failed_tickers = <<>>

\* Some tickers of the request failed, not all.
PartlyFailed ==
    /\ PricesDone
    /\ failed_tickers # <<>>
    /\ Len(failed_tickers) < Len(prices_request.tickers)

\* The calls made for ticker number i of the request, in order.
CallsAt(i) == SelectSeq(calls, LAMBDA c : c.at = i)

\* A source was called for every ticker of the request.
EveryTickerTried ==
    \A i \in 1..Len(prices_request.tickers) : CallsAt(i) # <<>>

\* The response holds data for each ticker of key k.
Complete(k, resp) ==
    /\ resp.kind = "response"
    /\ DOMAIN resp.prices = Range(k.tickers)
    /\ DOMAIN resp.returns = Range(k.tickers)

\* C23: every entry of the price cache is a complete response, stored by a
\* request all of whose tickers were fetched; a request some of whose tickers
\* fail, not all, returns the partial data and stores nothing, and a request
\* whose key is not in the cache fetches every ticker.
C23_CacheHoldsCompleteResponses ==
    /\ \A k \in DOMAIN price_cache :
          /\ Complete(k, price_cache[k])
          /\ \/ \E r \in served_ok :
                   CacheKey(r.request) = k /\ r.response = price_cache[k]
             \/ /\ AllFetched
                /\ CacheKey(prices_request) = k
                /\ prices_response = price_cache[k]
    /\ PartlyFailed =>
          /\ prices_response = FetchPricesResponse(prices_data, returns_data)
          /\ CacheKey(prices_request) \notin DOMAIN price_cache
    /\ (PricesDone /\ CacheKey(prices_request) \notin DOMAIN price_cache) =>
          EveryTickerTried

\* A and B were requested, B failed: the response holds A only and is not
\* stored, while the cache holds the response of an earlier request for A.
C23_Witness ==
    /\ PartlyFailed
    /\ prices_request.tickers = <<"A", "B">>
    /\ DOMAIN prices_response.prices = {"A"}
    /\ price_cache # EmptyDict
    /\ \E r \in served_ok : r.request.tickers = <<"A">>

\* The number of times t is listed in s.
Count(t, s) == Cardinality({i \in 1..Len(s) : s[i] = t})

\* The same start, end, interval and log_returns, and the same tickers in any
\* order.
SameRequest(a, b) ==
    /\ a.start = b.start
    /\ a.end = b.end
    /\ a.interval = b.interval
    /\ a.log_returns = b.log_returns
    /\ \A t \in Range(a.tickers) \cup Range(b.tickers) :
          Count(t, a.tickers) = Count(t, b.tickers)

\* C24: once a request has been served with every ticker fetched, a later
\* request with the same start, end, interval, log_returns and the same tickers
\* in any order gets the response of that request, and no data source is
\* called for it.
C24_LaterRequestsFromCache ==
    PricesDone =>
        \A r \in served_ok :
            SameRequest(r.request, prices_request) =>
                calls = <<>> /\ prices_response = r.response

\* A request for B and A answered with the response once given for A and B.
C24_Witness ==
    /\ PricesDone
    /\ prices_request.tickers = <<"B", "A">>
    /\ calls = <<>>
    /\ \E r \in served_ok :
          /\ r.request.tickers = <<"A", "B">>
          /\ SameRequest(r.request, prices_request)
          /\ prices_response = r.response

\* C25: the price cache never evicts or overwrites: a key that is present
\* stays, with its value, through every step.
C25_CacheNeverEvicts ==
    [][\A k \in DOMAIN price_cache :
          k \in DOMAIN price_cache' /\ price_cache'[k] = price_cache[k]]_vars

\* A response has just been stored next to two older entries.
C25_Witness ==
    /\ AllFetched
    /\ CacheKey(prices_request) \in DOMAIN price_cache
    /\ Cardinality(DOMAIN price_cache) = 3

\* No call of a source gave data.
NoData == \A i \in 1..Len(calls) : calls[i].data = <<>>

\* Every requested ticker failed to fetch: each was tried, none gave data (so
\* for a request without tickers).
EveryTickerFailed == EveryTickerTried /\ NoData

Is503(resp) == resp.kind = "HTTPException" /\ resp.status_code = 503

\* C26: fetch_prices fails with status 503 exactly when every requested ticker
\* failed to fetch (a request without tickers too); nothing is then added to the
\* cache, and the caller never sees the failure as a 500.
C26_AllFailedIs503 ==
    /\ [](PricesDone =>
            /\ Is503(prices_response) <=> EveryTickerFailed
            /\ prices_response.status_code # 500)
    /\ [][(prices_pc' = "done" /\ Is503(prices_response')) =>
            price_cache' = price_cache]_vars

\* Both sources failed for A and for B; the cache, not empty, is as it was.
C26_Witness ==
    /\ PricesDone
    /\ Is503(prices_response)
    /\ USE_TWELVE_DATA
    /\ prices_request.tickers = <<"A", "B">>
    /\ Len(calls) = 4
    /\ price_cache # EmptyDict

\* The tickers fetch_ticker_data has finished with.
FinishedTickers ==
    IF prices_pc \in {"twelve", "yfinance"} THEN 1..(ticker_at - 1) ELSE 1..ticker_at

\* The calls for one ticker follow the order of the sources: Twelve Data first
\* if it is configured, yfinance only after Twelve Data gave nothing, or alone.
InSourceOrder(i) ==
    LET cs == CallsAt(i)
    IN  IF USE_TWELVE_DATA
        THEN \/ cs = <<>> /\ prices_pc = "twelve" /\ i = ticker_at
             \/ /\ Len(cs) = 1
                /\ cs[1].source = "Twelve Data"
                /\ cs[1].data # <<>> \/ (prices_pc = "yfinance" /\ i = ticker_at)
             \/ /\ Len(cs) = 2
                /\ cs[1].source = "Twelve Data" /\ cs[1].data = <<>>
                /\ cs[2].source = "yfinance"
        ELSE \/ cs = <<>> /\ prices_pc = "yfinance" /\ i = ticker_at
             \/ Len(cs) = 1 /\ cs[1].source = "yfinance"

\* fetch_ticker_data raised for ticker number i: every source tried had failed.
RaisedFor(i) == \A j \in 1..Len(CallsAt(i)) : CallsAt(i)[j].data = <<>>

\* C27: fetch_ticker_data asks Twelve Data first when it is configured and
\* yfinance only after Twelve Data gave no data (or at once when it is not
\* configured); it returns the first data obtained, and it raises, which lists
\* the ticker as failed, only when every source it tried has failed.
C27_SourcesInOrder ==
    /\ \A i \in 1..ticker_at : InSourceOrder(i)
    /\ Len(failed_tickers) = Cardinality({i \in FinishedTickers : RaisedFor(i)})
    /\ \A i \in 1..Len(failed_tickers) :
          \E j \in FinishedTickers :
              RaisedFor(j) /\ prices_request.tickers[j] = failed_tickers[i]
    /\ (prices_pc = "loop" /\ ticker_at > 0 /\ ~RaisedFor(ticker_at)) =>
          LET cs == CallsAt(ticker_at)
          IN  /\ cs[Len(cs)].data # <<>>
              /\ prices_data[prices_request.tickers[ticker_at]]
                    = PriceList(cs[Len(cs)].data[1])

\* Twelve Data is configured: it gave nothing for A, yfinance then did, and it
\* gave the data for B itself.
C27_Witness ==
    /\ PricesDone
    /\ USE_TWELVE_DATA
    /\ prices_request.tickers = <<"A", "B">>
    /\ Len(calls) = 3
    /\ calls[1].source = "Twelve Data" /\ calls[1].data = <<>>
    /\ calls[2].source = "yfinance" /\ calls[2].data # <<>>
    /\ calls[3].source = "Twelve Data" /\ calls[3].data # <<>>

\* ------------------------------------- properties of the regression endpoints

ApiDone == api_pc = "done"

\* The body of the handler has raised an HTTPException of status 400.
Rejected400 ==
    /\ api_raised # <<>>
    /\ api_raised[1].kind = "HTTPException"
    /\ api_raised[1].status_code = 400

\* C28: a rejection with status 400 raised inside run_capm, grs_test,
\* calculate_lpm_frontier or calculate_multi_asset_metrics reaches the caller
\* with status 400; the handler's except clauses never make a 500 of it.
C28_RejectionsReachCallerAs400 ==
    (ApiDone /\ Rejected400) =>
        /\ api_response.kind = "HTTPException"
        /\ api_response.status_code = 400

\* The statistic is about to be computed, or has been.
GrsComputes ==
    \/ api_pc = "grs_stat"
    \/ ApiDone /\ api_response.kind = "response"

\* The number of months the portfolios of the request share with the factors.
Observations(req) == Cardinality(Merged(req.portfolios, FactorMonths(req)))

\* C29: whenever compute_grs_test computes the statistic, T >= N + K + 1, so
\* that the degrees of freedom T - N - K are at least 1 and the divisors N and
\* N * (K + 1) are not zero; with fewer observations, or without a portfolio,
\* no statistic is computed and the call ends in an error.
C29_GrsDegreesOfFreedom ==
    api_handler = "grs_test" =>
        /\ GrsComputes =>
              /\ grs.T = Observations(api_request)
              /\ grs.N = Len(api_request.portfolios)
              /\ grs.T >= grs.N + grs.K + 1
              /\ grs.N >= 1
        /\ (ApiDone /\ api_response.kind = "response") =>
              /\ api_response.grs_statistic.first.den >= 1
              /\ api_response.grs_statistic.second.den >= 1
              /\ api_response.grs_statistic.second.num >= 1
              /\ api_response.grs_statistic.dfn >= 1
              /\ api_response.grs_statistic.dfd >= 1
        /\ (/\ ApiDone
            /\ \/ Len(api_request.portfolios) = 0
               \/ Observations(api_request)
                     < Len(api_request.portfolios)
                       + (IF api_request.model = "FF3" THEN 3 ELSE 5) + 1) =>
              api_response.kind = "HTTPException"

\* Two portfolios and three factors over six shared months: the statistic is
\* computed with T - N - K = 1.
C29_Witness ==
    /\ api_handler = "grs_test"
    /\ ApiDone
    /\ api_response.kind = "response"
    /\ grs = [T |-> 6, N |-> 2, K |-> 3]
    /\ api_response.grs_statistic.dfd = 1

\* The rows of the request in which both the series of t and the series of the
\* market have a value.
CleanRowsOf(req, t) ==
    LET has(c, i) == i \in 1..Len(c.values) /\ i \notin c.missing
    IN  {i \in 1..Len(ColumnOf(req.returns, t).values) :
            /\ has(ColumnOf(req.returns, t), i)
            /\ has(ColumnOf(req.returns, req.market), i)}

\* The tickers other than the market with at least 10 clean rows, in the order
\* of the request.
TickersWithTenRows(req) ==
    SelectSeq(Tickers(req.returns),
              LAMBDA t : t # req.market /\ Cardinality(CleanRowsOf(req, t)) >= 10)

\* C30: for a request whose market proxy is among its series, run_capm returns
\* one result for each ticker other than the market that has at least 10 rows
\* free of missing values, in the order of the request; the market and the
\* tickers with fewer rows are skipped without error; the security market line
\* is empty exactly when there is no result.
C30_OneResultPerTicker ==
    (/\ api_handler = "run_capm"
     /\ ApiDone
     /\ HasColumn(api_request.returns, api_request.market)) =>
        /\ api_response.kind = "response"
        /\ Tickers(api_response.results) = TickersWithTenRows(api_request)
        /\ api_response.sml = <<>> <=> api_response.results = <<>>

====
